---- MODULE Spec2Model ----
(***************************************************************************)
(* A model of gobus: the GTFS update scheduler, the transactional feed     *)
(* import into the SQLite store, and the request-time readers.             *)
(***************************************************************************)
EXTENDS Integers, Sequences, FiniteSets, TLC

(***************************************************************************)
(* Bounds of the model.                                                    *)
(***************************************************************************)
\* number of calendar days (America/Chicago) the clock runs through
MaxDay == 2
\* number of distinct feed versions the upstream server publishes
MaxFeed == 2

(***************************************************************************)
(* The clock.  Wall-clock time is sampled at the hours of TickHours on     *)
(* every day; `now` counts samples.  Time values are hours since the       *)
(* midnight that starts day 0, in the feed's timezone.                     *)
(***************************************************************************)
ThreeAM == 3
HoursPerDay == 24
TickHours == <<0, ThreeAM>>
TicksPerDay == Len(TickHours)

DayOf(t) == t \div TicksPerDay
HourOf(t) == TickHours[(t % TicksPerDay) + 1]
TimeOf(t) == DayOf(t) * HoursPerDay + HourOf(t)

\* today := time.Now().In(chicagoTZ()).Format("2006-01-02"); days count from 1,
\* 0 is the empty string a new Scheduler holds.
Today(t) == DayOf(t) + 1

\* next3AM: today's 03:00 if it is still ahead, otherwise tomorrow's.
next3AM(t) ==
    LET next == DayOf(t) * HoursPerDay + ThreeAM
    IN  IF ~(next > TimeOf(t)) THEN next + HoursPerDay ELSE next

(***************************************************************************)
(* The store.  A dataset gives, for every feed table, the spatial index    *)
(* and every feed_metadata key, the feed version its rows come from        *)
(* (0: no rows; -v: only a part of version v's rows).                      *)
(***************************************************************************)
\* the tables clearTables deletes from, in its order, but feed_metadata
FeedTables == <<"stop_times", "shapes", "trips", "calendar_dates", "calendar",
                "stops", "routes", "agency", "stops_rtree">>
MetaKeys == {"imported_at", "last_modified", "etag"}
Cells == {FeedTables[i] : i \in 1..Len(FeedTables)} \cup MetaKeys

Procs == {"main", "startup", "background"}
NoTx == [c \in Cells |-> -99]
NoReq == [op |-> "none"]
NoResp == [op |-> "none"]
NoFeed == [v |-> 0, lm |-> 0, etag |-> 0]

VARIABLES
    now,            \* the clock, in samples
    lastCheckDate,  \* Scheduler.lastCheckDate
    pc,             \* where each goroutine is
    ret,            \* what the goroutine's last scheduler call returned
    callDay,        \* `today` of the CheckAndUpdate call in progress
    lm,             \* CheckAndUpdate's lastModified
    etag,           \* CheckAndUpdate's etag
    status,         \* the response status of CheckAndUpdate's conditional check
    dl,             \* update's downloaded feed with its validators
    step,           \* Import's position in ImportSteps
    tx,             \* the uncommitted working copy of each goroutine's transaction
    snap,           \* the committed dataset each open transaction started from
    next,           \* StartBackground's `next`
    writer,         \* the connection holding SQLite's write lock
    committed,      \* the committed dataset: what every reader sees
    serverFeed,     \* the feed version the upstream server holds
    importFlag,     \* --import-gtfs
    obs,            \* what the last store query of a request handler read, and
                    \* whether an import held the write lock then
    issued,         \* per day, the conditional checks issued by calls of that day
    failedPending,  \* a CheckAndUpdate failed and no conditional check was made since
    cancelled,      \* main's ctx is cancelled: ctx.Done() is closed
    ready,          \* Server.ready is closed
    cacheEntries,   \* Cache.entries
    lastSet,        \* per key, the value and the time of the latest Cache.Set
    cacheNow,       \* time.Now() as the cache reads it
    req,            \* the request a handler or a store query is serving
    resp            \* what it returned

vars == <<now, lastCheckDate, pc, ret, callDay, lm, etag, status, dl, step, tx, snap, next,
          writer, committed, serverFeed, importFlag, obs, issued, failedPending,
          cancelled, ready, cacheEntries, lastSet, cacheNow, req, resp>>

\* a complete import of feed f: every table from f, the index from the stops,
\* imported_at stamped, the validators present when the download returned them
DatasetOf(f) ==
    [c \in Cells |->
        IF c = "last_modified" THEN f.lm
        ELSE IF c = "etag" THEN f.etag
        ELSE f.v]

Empty == DatasetOf(NoFeed)

Validators(v) == IF v = 0 THEN {0} ELSE {0, v}

Feeds == {[v |-> v, lm |-> l, etag |-> e] :
            v \in 0..MaxFeed, l \in 0..MaxFeed, e \in 0..MaxFeed}

IsComplete(d) ==
    \E f \in Feeds : f.lm \in Validators(f.v) /\ f.etag \in Validators(f.v)
                     /\ d = DatasetOf(f)

\* a store that never reports data
HasDataNever(db) == FALSE

\* HasData: SELECT COUNT( * ) FROM routes, on the database handle
HasData(db) == db["routes"] > 0

\* GetMetadata: SELECT value FROM feed_metadata WHERE key = ?; "" when absent
GetMetadata(db, key) == db[key]

(***************************************************************************)
(* Importer.Import: the statements of one transaction, in program order.   *)
(* streamStopTimes and streamShapes insert row by row: the first entry of  *)
(* each is the loop with rows already inserted, the second its io.EOF.     *)
(***************************************************************************)
ImportSteps == <<"clearTables", "importAgencies", "importRoutes", "importStops",
                 "importCalendar", "importCalendarDates", "importTrips",
                 "streamStopTimes", "streamStopTimesEOF",
                 "streamShapes", "streamShapesEOF",
                 "RebuildRTree", "imported_at", "last_modified", "etag", "Commit">>

\* clearTables: DELETE FROM each feed table, stops_rtree and feed_metadata, on tx
clearTables(d) == [c \in Cells |-> 0]

\* RebuildRTree: DELETE FROM stops_rtree; INSERT ... SELECT ... FROM stops, on tx
RebuildRTree(d) == [d EXCEPT !["stops_rtree"] = d["stops"]]

\* feed_metadata is stamped with last_modified / etag only when non-empty
StampValidator(d, key, value) == IF value # 0 THEN [d EXCEPT ![key] = value] ELSE d

\* the effect of one statement of Import on the transaction's working copy
ApplyStep(d, name, f) ==
    CASE name = "clearTables"         -> clearTables(d)
      [] name = "importAgencies"      -> [d EXCEPT !["agency"] = f.v]
      [] name = "importRoutes"        -> [d EXCEPT !["routes"] = f.v]
      [] name = "importStops"         -> [d EXCEPT !["stops"] = f.v]
      [] name = "importCalendar"      -> [d EXCEPT !["calendar"] = f.v]
      [] name = "importCalendarDates" -> [d EXCEPT !["calendar_dates"] = f.v]
      [] name = "importTrips"         -> [d EXCEPT !["trips"] = f.v]
      [] name = "streamStopTimes"     -> [d EXCEPT !["stop_times"] = 0 - f.v]
      [] name = "streamStopTimesEOF"  -> [d EXCEPT !["stop_times"] = f.v]
      [] name = "streamShapes"        -> [d EXCEPT !["shapes"] = 0 - f.v]
      [] name = "streamShapesEOF"     -> [d EXCEPT !["shapes"] = f.v]
      [] name = "RebuildRTree"        -> RebuildRTree(d)
      [] name = "imported_at"         -> [d EXCEPT !["imported_at"] = f.v]
      [] name = "last_modified"       -> StampValidator(d, "last_modified", f.lm)
      [] name = "etag"                -> StampValidator(d, "etag", f.etag)
      [] OTHER                        -> d

\* tx.Commit: the working copy becomes the committed dataset
Commit(db, work) == work

\* a rollback that leaves the statements already executed in place
RollbackKeepsWork(db, work) == work

\* defer tx.Rollback(): the working copy is dropped
Rollback(db, work) == db

(***************************************************************************)
(* Initial state: the process starts at any sampled hour of day 0, over a  *)
(* store that is empty or holds feed 1 from an earlier run.                *)
(***************************************************************************)
Init ==
    /\ now \in 0..(TicksPerDay - 1)
    /\ lastCheckDate = 0
    /\ pc = [p \in Procs |-> IF p = "main" THEN "EnsureData" ELSE "unborn"]
    /\ ret = [p \in Procs |-> "none"]
    /\ callDay = [p \in Procs |-> 0]
    /\ lm = [p \in Procs |-> 0]
    /\ etag = [p \in Procs |-> 0]
    /\ status = [p \in Procs |-> 0]
    /\ dl = [p \in Procs |-> NoFeed]
    /\ step = [p \in Procs |-> 0]
    /\ tx = [p \in Procs |-> NoTx]
    /\ snap = [p \in Procs |-> NoTx]
    /\ next = 0
    /\ writer = "none"
    /\ committed \in {Empty, DatasetOf([v |-> 1, lm |-> 1, etag |-> 1])}
    /\ serverFeed = 1
    /\ importFlag \in BOOLEAN
    /\ obs = [q |-> "none", view |-> <<>>, during |-> FALSE]
    /\ issued = [d \in 1..MaxDay |-> 0]
    /\ failedPending = FALSE
    /\ cancelled = FALSE
    /\ ready = FALSE
    /\ cacheEntries = <<>> /\ lastSet = <<>> /\ cacheNow = 0
    /\ req = NoReq
    /\ resp = NoResp

\* a scheduler call of goroutine p returns r: nil, or the error of the failed step
Return(p, r) ==
    /\ pc' = [pc EXCEPT ![p] = "Returned"]
    /\ ret' = [ret EXCEPT ![p] = r]

\* a failed CheckAndUpdate is remembered; EnsureData's failure is main's own
NoteFailure(p) == failedPending' = (failedPending \/ p # "main")

U_clock == <<now, next, serverFeed, importFlag, obs, cancelled, ready, cacheEntries, lastSet,
            cacheNow, req, resp>>
U_store == <<step, tx, snap, writer, committed>>
U_guard == <<lastCheckDate, callDay>>
U_check == <<lm, etag, status, issued>>

\* EnsureData, called by main with and without --import-gtfs
EnsureData ==
    /\ pc["main"] = "EnsureData"
    /\ IF HasData(committed)
         THEN Return("main", "nil")
         ELSE /\ pc' = [pc EXCEPT !["main"] = "Download"]
              /\ UNCHANGED ret
    /\ UNCHANGED <<U_clock, U_store, U_guard, U_check, dl, failedPending>>

\* main, lines 51-59: under --import-gtfs the process exits after EnsureData,
\* with status 1 when it failed
MainImportOnly ==
    /\ pc["main"] = "Returned"
    /\ importFlag
    /\ pc' = [pc EXCEPT !["main"] = "exit"]
    /\ UNCHANGED <<U_clock, U_store, U_guard, U_check, ret, dl, failedPending>>

\* main, lines 62-76: EnsureData's error is logged, then StartBackground and the
\* startup CheckAndUpdate are started as goroutines and main serves
MainServe ==
    /\ pc["main"] = "Returned"
    /\ ~importFlag
    /\ pc' = [p \in Procs |->
                CASE p = "main" -> "serve"
                  [] p = "startup" -> "CheckAndUpdate"
                  [] p = "background" -> "loop"]
    /\ ret' = [ret EXCEPT !["main"] = "none"]
    /\ dl' = [dl EXCEPT !["main"] = NoFeed]
    /\ UNCHANGED <<U_clock, U_store, U_guard, U_check, failedPending>>

\* main, lines 72-76: the startup goroutine logs CheckAndUpdate's error and ends
StartupDone ==
    /\ pc["startup"] = "Returned"
    /\ pc' = [pc EXCEPT !["startup"] = "done"]
    /\ ret' = [ret EXCEPT !["startup"] = "none"]
    /\ dl' = [dl EXCEPT !["startup"] = NoFeed]
    /\ status' = [status EXCEPT !["startup"] = 0]
    /\ UNCHANGED <<U_clock, U_store, U_guard, lm, etag, issued, failedPending>>

\* a guard that lets every call through
DayGuardAlways(last, today) == TRUE

\* the day-guard: lastCheckDate is read and written under s.mu
DayGuardPasses(last, today) == last # today

\* a call that takes the day's guard and returns without checking
CheckAndUpdateGuardOnly(p) ==
    /\ pc[p] = "CheckAndUpdate"
    /\ lastCheckDate' = Today(now)
    /\ Return(p, "nil")
    /\ UNCHANGED <<U_clock, U_store, U_check, callDay, dl, failedPending>>

\* CheckAndUpdate, lines 48-55: one critical section
CheckAndUpdate(p) ==
    /\ pc[p] = "CheckAndUpdate"
    /\ LET today == Today(now) IN
         IF ~DayGuardPasses(lastCheckDate, today)
           THEN /\ Return(p, "nil")
                /\ UNCHANGED <<lastCheckDate, callDay>>
           ELSE /\ lastCheckDate' = today
                /\ callDay' = [callDay EXCEPT ![p] = today]
                /\ pc' = [pc EXCEPT ![p] = "GetLastModified"]
                /\ UNCHANGED ret
    /\ UNCHANGED <<U_clock, U_store, U_check, dl, failedPending>>

\* lastModified, _ := s.db.GetMetadata(ctx, "last_modified")
GetLastModified(p) ==
    /\ pc[p] = "GetLastModified"
    /\ lm' = [lm EXCEPT ![p] = GetMetadata(committed, "last_modified")]
    /\ pc' = [pc EXCEPT ![p] = "GetETag"]
    /\ UNCHANGED <<U_clock, U_store, U_guard, ret, etag, status, issued, dl, failedPending>>

\* etag, _ := s.db.GetMetadata(ctx, "etag")
GetETag(p) ==
    /\ pc[p] = "GetETag"
    /\ etag' = [etag EXCEPT ![p] = GetMetadata(committed, "etag")]
    /\ pc' = [pc EXCEPT ![p] = "Check"]
    /\ UNCHANGED <<U_clock, U_store, U_guard, ret, lm, status, issued, dl, failedPending>>

\* the server's answers to the conditional HEAD: 304 only when a validator the
\* request carries names the version the server holds; 200; any other status
HeadStatuses(lastModified, tag) ==
    {200, 500} \cup (IF lastModified = serverFeed \/ tag = serverFeed THEN {304} ELSE {})

\* a check that reports a change whatever the status
NeedsUpdateAlways(code) == TRUE

\* Downloader.Check's NeedsUpdate for a response status
NeedsUpdate(code) == code # 304

\* CheckAndUpdate, lines 60-63: the conditional check with the validators read
Check(p) ==
    /\ pc[p] = "Check"
    /\ issued' = [issued EXCEPT ![callDay[p]] = @ + 1]
    /\ lm' = [lm EXCEPT ![p] = 0]
    /\ etag' = [etag EXCEPT ![p] = 0]
    /\ callDay' = [callDay EXCEPT ![p] = 0]
    /\ \/ \* client.Do fails: the error is returned
          /\ Return(p, "Check")
          /\ failedPending' = TRUE
          /\ UNCHANGED status
       \/ \E code \in HeadStatuses(lm[p], etag[p]) :
            /\ ~cancelled
            /\ failedPending' = FALSE
            /\ status' = [status EXCEPT ![p] = code]
            /\ pc' = [pc EXCEPT ![p] = "Checked"]
            /\ UNCHANGED ret
    /\ UNCHANGED <<U_clock, U_store, lastCheckDate, dl>>

\* CheckAndUpdate, lines 65-68: nil when the check reports no change, update otherwise
Checked(p) ==
    /\ pc[p] = "Checked"
    /\ IF NeedsUpdate(status[p])
         THEN /\ pc' = [pc EXCEPT ![p] = "Download"]
              /\ status' = [status EXCEPT ![p] = 0]
              /\ UNCHANGED ret
         ELSE Return(p, "nil") /\ UNCHANGED status
    /\ UNCHANGED <<U_clock, U_store, U_guard, lm, etag, issued, dl, failedPending>>

\* the Last-Modified and ETag headers of a response for feed version v
ResponseValidators(v) == {<<v, v>>}

\* update, lines 96-99: Downloader.Download; a transport error or a status other
\* than 200 is returned, otherwise the validators of the response come with the file
Download(p) ==
    /\ pc[p] = "Download"
    /\ \/ /\ Return(p, "Download")
          /\ NoteFailure(p)
          /\ UNCHANGED dl
       \/ \E h \in ResponseValidators(serverFeed) :
            /\ ~cancelled
            /\ dl' = [dl EXCEPT ![p] = [v |-> serverFeed, lm |-> h[1], etag |-> h[2]]]
            /\ pc' = [pc EXCEPT ![p] = "ParseZip"]
            /\ UNCHANGED <<ret, failedPending>>
    /\ UNCHANGED <<U_clock, U_store, U_guard, U_check>>

\* update, lines 102-107: ParseZip
ParseZip(p) ==
    /\ pc[p] = "ParseZip"
    /\ \/ /\ Return(p, "ParseZip")
          /\ NoteFailure(p)
       \/ /\ pc' = [pc EXCEPT ![p] = "BeginTx"]
          /\ UNCHANGED <<ret, failedPending>>
    /\ UNCHANGED <<U_clock, U_store, U_guard, U_check, dl>>

\* Import, lines 31-35: a deferred transaction; nothing is read or locked yet
BeginTx(p) ==
    /\ pc[p] = "BeginTx"
    /\ \/ /\ Return(p, "BeginTx")
          /\ NoteFailure(p)
          /\ UNCHANGED step
       \/ /\ ~cancelled
          /\ pc' = [pc EXCEPT ![p] = "Import"]
          /\ step' = [step EXCEPT ![p] = 1]
          /\ UNCHANGED <<ret, failedPending>>
    /\ UNCHANGED <<U_clock, U_guard, U_check, dl, tx, snap, writer, committed>>

\* a statement executed on the database handle instead of tx: it autocommits
ExecOnDb(db, work, name, f) == [db |-> ApplyStep(db, name, f), work |-> work]

\* every statement of Import runs on tx: readers of the database handle keep
\* seeing db, the statement changes the working copy only
ExecOnTx(db, work, name, f) == [db |-> db, work |-> ApplyStep(work, name, f)]

\* Import, lines 38-92: the next statement succeeds.  The first statement takes
\* SQLite's write lock and starts from the committed dataset.
ImportStep(p) ==
    /\ pc[p] = "Import"
    /\ ~cancelled
    /\ ImportSteps[step[p]] # "Commit"
    /\ IF step[p] = 1 THEN writer = "none" ELSE writer = p
    /\ LET r == ExecOnTx(committed, IF step[p] = 1 THEN committed ELSE tx[p],
                         ImportSteps[step[p]], dl[p])
       IN  /\ tx' = [tx EXCEPT ![p] = r.work]
           /\ committed' = r.db
    /\ snap' = [snap EXCEPT ![p] = IF step[p] = 1 THEN committed ELSE @]
    /\ writer' = p
    /\ step' = [step EXCEPT ![p] = @ + 1]
    /\ UNCHANGED <<U_clock, U_guard, U_check, pc, ret, dl, failedPending>>

\* Import, lines 94-104: tx.Commit succeeds
ImportCommit(p) ==
    /\ pc[p] = "Import"
    /\ ~cancelled
    /\ ImportSteps[step[p]] = "Commit"
    /\ writer = p
    /\ committed' = Commit(committed, tx[p])
    /\ tx' = [tx EXCEPT ![p] = NoTx]
    /\ snap' = [snap EXCEPT ![p] = NoTx]
    /\ writer' = "none"
    /\ step' = [step EXCEPT ![p] = 0]
    /\ Return(p, "nil")
    /\ UNCHANGED <<U_clock, U_guard, U_check, dl, failedPending>>

\* Import: the statement at hand fails (SQLITE_BUSY while another connection
\* writes, a constraint violation, a read error of the zip, a failed commit, ctx
\* cancelled: the calls on tx take ctx and database/sql rolls the transaction back);
\* the deferred Rollback runs and the error of that step is returned
ImportFail(p) ==
    /\ pc[p] = "Import"
    /\ step[p] = 1 \/ writer = p
    /\ committed' = Rollback(committed, tx[p])
    /\ tx' = [tx EXCEPT ![p] = NoTx]
    /\ snap' = [snap EXCEPT ![p] = NoTx]
    /\ writer' = IF writer = p THEN "none" ELSE writer
    /\ step' = [step EXCEPT ![p] = 0]
    /\ Return(p, ImportSteps[step[p]])
    /\ NoteFailure(p)
    /\ UNCHANGED <<U_clock, U_guard, U_check, dl>>

\* StartBackground, lines 76-80 and 83-85: CheckAndUpdate's error is logged, the
\* loop computes the next boundary and arms the timer
StartBackground ==
    /\ pc["background"] \in {"loop", "Returned"}
    /\ next' = next3AM(now)
    /\ pc' = [pc EXCEPT !["background"] = "timer"]
    /\ ret' = [ret EXCEPT !["background"] = "none"]
    /\ dl' = [dl EXCEPT !["background"] = NoFeed]
    /\ status' = [status EXCEPT !["background"] = 0]
    /\ UNCHANGED <<now, serverFeed, importFlag, obs, cancelled, ready, cacheEntries, lastSet,
                   cacheNow, req, resp, U_store, U_guard,
                   lm, etag, issued, failedPending>>

\* StartBackground, lines 82-83: the timer fires and CheckAndUpdate is called
TimerFires ==
    /\ pc["background"] = "timer"
    /\ TimeOf(now) >= next
    /\ pc' = [pc EXCEPT !["background"] = "CheckAndUpdate"]
    /\ UNCHANGED <<U_clock, U_store, U_guard, U_check, ret, dl, failedPending>>

\* the steps that take no time at the clock's grain of hours: a goroutine at one of
\* them moves on before the next sample (a due timer fires, a closed ctx.Done() is
\* received, the process exits, a lock is taken, a metadata row is read, a return is
\* handled).  The HEAD request, the download, the
\* parse and the statements of the import may take any time: http.Client has no
\* timeout and the import takes no context deadline.
Prompt(p) ==
    \/ pc[p] \in {"EnsureData", "Returned", "CheckAndUpdate", "GetLastModified",
                  "GetETag", "Checked", "loop", "BeginTx"}
    \/ pc[p] = "timer" /\ (TimeOf(now) >= next \/ cancelled)
    \/ pc[p] = "shutdown"

\* the wall clock advances to the next sampled hour, up to the sample `last`
TickUpTo(last) ==
    /\ now < last
    /\ \A p \in Procs : ~Prompt(p)
    /\ now' = now + 1
    /\ UNCHANGED <<next, serverFeed, importFlag, obs, cancelled, ready, cacheEntries, lastSet,
                   cacheNow, req, resp, U_store, U_guard,
                   U_check, pc, ret, dl, failedPending>>

\* the upstream server publishes a new feed version
Publish ==
    /\ serverFeed < MaxFeed
    /\ serverFeed' = serverFeed + 1
    /\ UNCHANGED <<now, next, importFlag, obs, cancelled, ready, cacheEntries, lastSet,
                   cacheNow, req, resp, U_store, U_guard, U_check,
                   pc, ret, dl, failedPending>>

\* the cells one statement of a request handler reads
Queries == {"NearbyStops", "DeparturesForStop"}
Reads(q) ==
    IF q = "NearbyStops" THEN {"stops_rtree", "stops"}
    ELSE {"stop_times", "trips", "routes", "calendar", "calendar_dates"}

\* what a statement on the database handle sees, in WAL mode: the committed state
ReadView(db, q) == [c \in Reads(q) |-> db[c]]

\* a request handler runs one query while main serves
Query(q) ==
    /\ pc["main"] = "serve"
    /\ obs' = [q |-> q, view |-> ReadView(committed, q), during |-> writer # "none"]
    /\ UNCHANGED <<now, next, serverFeed, importFlag, cancelled, ready, cacheEntries, lastSet,
                   cacheNow, req, resp, U_store, U_guard,
                   U_check, pc, ret, dl, failedPending>>

\* the scheduler and the importer over MaxDay days
Tick == TickUpTo(MaxDay * TicksPerDay - 1)

Scheduler ==
    \/ EnsureData
    \/ MainImportOnly
    \/ MainServe
    \/ StartupDone
    \/ \E p \in {"startup", "background"} :
         CheckAndUpdate(p) \/ GetLastModified(p) \/ GetETag(p) \/ Check(p)
         \/ Checked(p)
    \/ \E p \in Procs :
         Download(p) \/ ParseZip(p) \/ BeginTx(p) \/ ImportStep(p)
         \/ ImportCommit(p) \/ ImportFail(p)
    \/ StartBackground
    \/ TimerFires
    \/ Publish

Next == Scheduler \/ Tick

Spec == Init /\ [][Next]_vars

\* the same program during its first day, with the request handlers' queries
TickToday == TickUpTo(TicksPerDay - 1)

NextStore == Scheduler \/ TickToday \/ \E q \in Queries : Query(q)

SpecStore == Init /\ [][NextStore]_vars

\* main, lines 93-100: on SIGINT or SIGTERM the signal goroutine cancels ctx
Cancel ==
    /\ pc["main"] = "serve"
    /\ ~cancelled
    /\ cancelled' = TRUE
    /\ pc' = [pc EXCEPT !["main"] = "shutdown"]
    /\ UNCHANGED <<now, next, serverFeed, importFlag, obs, ready, cacheEntries, lastSet,
                   cacheNow, req, resp, U_store, U_guard,
                   U_check, ret, dl, failedPending>>

\* main, line 99: os.Exit(0) ends every goroutine; an open transaction is lost with
\* its connection and the write lock is released
Exit ==
    /\ pc["main"] = "shutdown"
    /\ pc' = [p \in Procs |-> "exit"]
    /\ writer' = "none"
    /\ UNCHANGED <<U_clock, U_guard, U_check, step, tx, snap, committed, ret, dl,
                   failedPending>>

\* StartBackground, lines 86-89: the select takes ctx.Done(), stops the timer and
\* returns
BackgroundStopped ==
    /\ pc["background"] = "timer"
    /\ cancelled
    /\ pc' = [pc EXCEPT !["background"] = "stopped"]
    /\ UNCHANGED <<U_clock, U_store, U_guard, U_check, ret, dl, failedPending>>

\* the program during its first day, with the shutdown signal
NextShutdown == Scheduler \/ TickToday \/ Cancel \/ Exit \/ BackgroundStopped

SpecShutdown == Init /\ [][NextShutdown]_vars


(***************************************************************************)
(* The request handlers are goroutines of their own and never touch the    *)
(* scheduler's fields: their specifications hold the scheduler still.      *)
(***************************************************************************)
U_sched == <<now, lastCheckDate, pc, ret, callDay, lm, etag, status, dl, step, tx, snap, next,
             writer, committed, serverFeed, importFlag, obs, issued, failedPending,
             cancelled, ready, cacheEntries, lastSet, cacheNow>>

ServingOver(db) ==
    /\ now = 0 /\ lastCheckDate = 1 /\ next = 0 /\ writer = "none"
    /\ pc = [p \in Procs |-> IF p = "main" THEN "serve" ELSE "Returned"]
    /\ ret = [p \in Procs |-> "none"]
    /\ callDay = [p \in Procs |-> 0]
    /\ lm = [p \in Procs |-> 0]
    /\ etag = [p \in Procs |-> 0]
    /\ status = [p \in Procs |-> 0]
    /\ dl = [p \in Procs |-> NoFeed]
    /\ step = [p \in Procs |-> 0]
    /\ tx = [p \in Procs |-> NoTx]
    /\ snap = [p \in Procs |-> NoTx]
    /\ committed = db
    /\ serverFeed = 1
    /\ importFlag = FALSE
    /\ obs = [q |-> "none", view |-> <<>>, during |-> FALSE]
    /\ issued = [d \in 1..MaxDay |-> 0]
    /\ failedPending = FALSE
    /\ cancelled = FALSE
    /\ cacheEntries = <<>> /\ lastSet = <<>> /\ cacheNow = 0

\* a request is served by the server main made over the committed dataset
Serving ==
    /\ ServingOver(DatasetOf([v |-> 1, lm |-> 1, etag |-> 1]))
    /\ ready = HasData(committed)

(***************************************************************************)
(* Text.  A string is the sequence of its characters; the characters of a  *)
(* GTFS time are the digits 0..9 and the colon, which follows '9' in ASCII.*)
(***************************************************************************)
Colon == 10
SecondsPerMinute == 60
SecondsPerHour == 60 * SecondsPerMinute
SecondsPerDay == HoursPerDay * SecondsPerHour

\* "%02d"
Pad2(n) == <<(n \div 10) % 10, n % 10>>

\* the text HH:MM:SS a feed holds for hour h, minute m, second s
HMS(h, m, s) == Pad2(h) \o <<Colon>> \o Pad2(m) \o <<Colon>> \o Pad2(s)

\* time.Format("15:04:05") of an instant
FormatClock(t) ==
    LET c == t % SecondsPerDay
    IN  HMS(c \div SecondsPerHour, (c \div SecondsPerMinute) % 60, c % SecondsPerMinute)

\* one %d of Sscanf: the digits from position i up to a colon or the end
RECURSIVE ScanInt(_, _, _)
ScanInt(str, i, acc) ==
    IF i > Len(str) \/ str[i] = Colon THEN [val |-> acc, pos |-> i]
    ELSE ScanInt(str, i + 1, acc * 10 + str[i])

\* fmt.Sscanf(gtfsTime, "%d:%d:%d", &h, &m, &s)
Sscanf(str) ==
    LET a == ScanInt(str, 1, 0)
        b == ScanInt(str, a.pos + 1, 0)
        c == ScanInt(str, b.pos + 1, 0)
    IN  [h |-> a.val, m |-> b.val, s |-> c.val]

\* the comparison of two TEXT values in SQLite and of two strings in Go
RECURSIVE StrLess(_, _)
StrLess(a, b) ==
    IF b = <<>> THEN FALSE
    ELSE IF a = <<>> THEN TRUE
    ELSE IF a[1] # b[1] THEN a[1] < b[1]
    ELSE StrLess(Tail(a), Tail(b))

\* int(d.Minutes()): the conversion truncates toward zero
TruncMinutes(sec) ==
    IF sec >= 0 THEN sec \div SecondsPerMinute ELSE -((-sec) \div SecondsPerMinute)

\* an instant is a number of seconds; a date is a number of days, and its text
\* YYYYMMDD orders as the date does
DateOf(t) == t \div SecondsPerDay
Midnight(t) == DateOf(t) * SecondsPerDay
Weekday(date) == date % 7

\* a rendering that keeps the hour as it is written
formatGTFSTimeUnwrapped(gtfsTime) ==
    LET t == Sscanf(gtfsTime)
    IN  [hour |-> IF t.h = 0 THEN 12 ELSE IF t.h > 12 THEN t.h - 12 ELSE t.h,
         minute |-> t.m,
         period |-> IF t.h >= 12 THEN "PM" ELSE "AM"]

\* formatGTFSTime and time.Format("3:04 PM"): hour of the 12-hour clock, minute, period
formatGTFSTime(gtfsTime) ==
    LET t == Sscanf(gtfsTime)
        displayHour == t.h % 24
    IN  [hour |-> IF displayHour = 0 THEN 12
                  ELSE IF displayHour > 12 THEN displayHour - 12 ELSE displayHour,
         minute |-> t.m,
         period |-> IF displayHour >= 12 THEN "PM" ELSE "AM"]

Format12(t) == formatGTFSTime(FormatClock(t))

minutesUntil(gtfsTime, t) ==
    LET hms == Sscanf(gtfsTime)
        depTime == Midnight(t) + hms.h * SecondsPerHour + hms.m * SecondsPerMinute + hms.s
        diff == depTime - t
    IN  IF diff < 0 THEN 0 ELSE TruncMinutes(diff)

\* the orders in which a statement or a sort may return the elements of S when
\* their rank is the only order asked for: equal ranks come in any order
RECURSIVE Ascending(_, _)
Ascending(S, rank) ==
    IF S = {} THEN {<<>>}
    ELSE UNION {{<<m>> \o rest : rest \in Ascending(S \ {m}, rank)} :
                  m \in {x \in S : \A y \in S : rank[x] <= rank[y]}}

Min(a, b) == IF a < b THEN a ELSE b

\* LIMIT n, and result[:n]
Limit(seq, n) == IF Len(seq) > n THEN SubSeq(seq, 1, n) ELSE seq

(***************************************************************************)
(* The store's date-scoped departure queries.                              *)
(***************************************************************************)
\* SELECT service_id FROM calendar WHERE <day> = 1 AND start_date <= ? AND end_date >= ?
CalendarServices(db, date) ==
    {c.service_id : c \in {c \in db.calendar :
        c.days[Weekday(date)] = 1 /\ c.start_date <= date /\ c.end_date >= date}}

\* SELECT service_id FROM calendar_dates WHERE date = ? AND exception_type = ?
ExceptionServices(db, date, type) ==
    {x.service_id : x \in {x \in db.calendar_dates :
        x.date = date /\ x.exception_type = type}}

ServiceFilterNoRemoval(db, service_id, date) ==
    \/ service_id \in CalendarServices(db, date)
    \/ service_id \in ExceptionServices(db, date, 1)

\* the WHERE clause on t.service_id, the same in both queries
ServiceFilter(db, service_id, date) ==
    \/ /\ service_id \in CalendarServices(db, date)
       /\ service_id \notin ExceptionServices(db, date, 2)
    \/ service_id \in ExceptionServices(db, date, 1)

\* stop_times JOIN trips ON t.trip_id = st.trip_id WHERE st.stop_id = ? and the
\* service filter
ActiveStopTimes(db, stopID, date) ==
    {x \in db.stop_times \X db.trips :
        /\ x[1].trip_id = x[2].trip_id
        /\ x[1].stop_id = stopID
        /\ ServiceFilter(db, x[2].service_id, date)}

DepartureRow(x) ==
    [TripID |-> x[1].trip_id, RouteID |-> x[2].route_id,
     DirectionID |-> x[2].direction_id, DepartureTime |-> x[1].departure_time]

\* ORDER BY st.departure_time: a row's rank is the number of rows whose text is less
ByDepartureTime(rows) ==
    [x \in rows |-> Cardinality({y \in rows : StrLess(y.DepartureTime, x.DepartureTime)})]

\* the row lists DeparturesForStop may return
DeparturesForStop(db, stopID, date, afterTime, limit) ==
    LET hits == {DepartureRow(x) : x \in {x \in ActiveStopTimes(db, stopID, date) :
                    ~StrLess(x[1].departure_time, afterTime)}}
    IN  {Limit(f, limit) : f \in Ascending(hits, ByDepartureTime(hits))}

\* the lists of times AllDeparturesForStopRoute may return
AllDeparturesForStopRoute(db, stopID, routeID, directionID, date) ==
    LET hits == {DepartureRow(x) : x \in {x \in ActiveStopTimes(db, stopID, date) :
                    x[2].route_id = routeID /\ x[2].direction_id = directionID}}
    IN  {[i \in 1..Len(f) |-> f[i].DepartureTime] :
            f \in Ascending(hits, ByDepartureTime(hits))}

(***************************************************************************)
(* fetchDepartures: the merge of the schedule with the realtime source.    *)
(***************************************************************************)
LateTolerance == 2
NoTime == [hour |-> 0, minute |-> 0, period |-> ""]

\* step 1: a failed query is logged and leaves no rows
ScheduledRows(r) ==
    IF r.dbErr THEN {<<>>}
    ELSE DeparturesForStop(r.db, r.stop, DateOf(r.now), FormatClock(r.now), r.limit * 2)

RealtimeDespiteError(ntErr, departures) == departures

\* step 2: rtDeps stays nil when the realtime client returns an error
RealtimeDepartures(ntErr, departures) == IF ntErr THEN <<>> ELSE departures

\* step 3: rtByTrip, the last entry of each trip id
HasRealtime(rtDeps, trip) == \E i \in 1..Len(rtDeps) : rtDeps[i].TripID = trip
rtByTrip(rtDeps, trip) ==
    rtDeps[CHOOSE i \in 1..Len(rtDeps) :
              /\ rtDeps[i].TripID = trip
              /\ \A j \in (i + 1)..Len(rtDeps) : rtDeps[j].TripID # trip]

\* int(time.Until(rtTime).Minutes()), time.Until read at the instant clock
MinutesUntilRealtime(rt, clock) == TruncMinutes(rt.DepartureTime - clock)

\* step 4, one scheduled row
MergeRow(sched, rtDeps, t, clock) ==
    LET schedMins == minutesUntil(sched.DepartureTime, t)
        base == [trip |-> sched.TripID, RouteID |-> sched.RouteID,
                 DirectionID |-> sched.DirectionID,
                 Scheduled |-> formatGTFSTime(sched.DepartureTime),
                 Realtime |-> NoTime, MinutesAway |-> schedMins,
                 IsRealtime |-> FALSE, IsLate |-> FALSE]
    IN  IF ~HasRealtime(rtDeps, sched.TripID) THEN base
        ELSE LET rt == rtByTrip(rtDeps, sched.TripID)
                 away == IF MinutesUntilRealtime(rt, clock) < 0 THEN 0
                         ELSE MinutesUntilRealtime(rt, clock)
             IN  IF ~rt.Actual THEN base
                 ELSE [base EXCEPT !.IsRealtime = TRUE,
                                   !.Realtime = Format12(rt.DepartureTime),
                                   !.MinutesAway = away,
                                   !.IsLate = away > schedMins + LateTolerance]

\* step 5, one realtime entry that no scheduled row has taken
RealtimeOnly(rt, clock) ==
    [trip |-> rt.TripID, RouteID |-> rt.RouteID, DirectionID |-> rt.DirectionID,
     Scheduled |-> Format12(rt.DepartureTime), Realtime |-> Format12(rt.DepartureTime),
     MinutesAway |-> MinutesUntilRealtime(rt, clock),
     IsRealtime |-> rt.Actual, IsLate |-> FALSE]

Merged(schedRows, rtDeps, t, clock) ==
    LET seen == {schedRows[i].TripID : i \in 1..Len(schedRows)}
        extra == SelectSeq(rtDeps, LAMBDA rt : /\ rt.TripID \notin seen
                                               /\ MinutesUntilRealtime(rt, clock) >= 0)
    IN  [i \in 1..Len(schedRows) |-> MergeRow(schedRows[i], rtDeps, t, clock)]
        \o [i \in 1..Len(extra) |-> RealtimeOnly(extra[i], clock)]

ByMinutesAway(seq) == [i \in 1..Len(seq) |-> seq[i].MinutesAway]

\* a result left in the order it was appended in
SortSliceOmitted(seq) == {seq}

\* step 6: sort.Slice is not stable
SortSlice(seq) ==
    {[i \in 1..Len(seq) |-> seq[p[i]]] : p \in Ascending(1..Len(seq), ByMinutesAway(seq))}

\* the lists fetchDepartures may return
fetchDepartures(r) ==
    UNION {{Limit(s, r.limit) :
              s \in SortSlice(Merged(rows, RealtimeDepartures(r.ntErr, r.rt),
                                     r.now, r.clock))} :
           rows \in ScheduledRows(r)}

(***************************************************************************)
(* The feed the request handlers are checked over: four trips of two       *)
(* routes and two services, and the stop S1 they call at.                  *)
(***************************************************************************)
MaxDate == 3
MaxLimit == 2

Dates == 1..MaxDate

FeedTrips ==
    {[trip_id |-> "T1", route_id |-> "R1", service_id |-> "WK", direction_id |-> 0],
     [trip_id |-> "T2", route_id |-> "R1", service_id |-> "XS", direction_id |-> 0],
     [trip_id |-> "T3", route_id |-> "R2", service_id |-> "WK", direction_id |-> 1],
     [trip_id |-> "T4", route_id |-> "R2", service_id |-> "WK", direction_id |-> 0]}

StopTime(trip, stop, time) == [trip_id |-> trip, stop_id |-> stop, departure_time |-> time]

AllWeek == [d \in 0..6 |-> 1]
OnlyDay(k) == [d \in 0..6 |-> IF d = k THEN 1 ELSE 0]

CalendarRow(service, days, start, end) ==
    [service_id |-> service, days |-> days, start_date |-> start, end_date |-> end]

\* calendar_dates has the primary key (service_id, date)
CalendarDates ==
    {cd \in SUBSET [service_id : {"WK", "XS"}, date : Dates, exception_type : {1, 2}] :
        /\ Cardinality(cd) <= 2
        /\ \A x, y \in cd : (x.service_id = y.service_id /\ x.date = y.date) => x = y}

(***************************************************************************)
(* The calendar: the two departure queries over every calendar of the feed.*)
(***************************************************************************)
CalendarStopTimes ==
    {StopTime("T1", "S1", HMS(8, 0, 0)), StopTime("T2", "S1", HMS(9, 0, 0)),
     StopTime("T3", "S1", HMS(9, 0, 0)), StopTime("T4", "S1", HMS(9, 30, 0)),
     StopTime("T1", "S2", HMS(8, 5, 0))}

Calendars ==
    {wk \cup xs :
       wk \in {{}} \cup {{CalendarRow("WK", d, r[1], r[2])} :
                  d \in {AllWeek, OnlyDay(2)},
                  r \in {<<1, MaxDate>>, <<2, 2>>, <<2, MaxDate>>, <<1, 1>>}},
       xs \in {{}, {CalendarRow("XS", AllWeek, 2, MaxDate)}}}

CalendarRequests ==
    {[op |-> "departures",
      db |-> [stop_times |-> CalendarStopTimes, trips |-> FeedTrips,
              calendar |-> cal, calendar_dates |-> cd],
      stop |-> "S1", date |-> date] :
        cal \in Calendars, cd \in CalendarDates, date \in Dates}

InitCalendar == Serving /\ req \in CalendarRequests /\ resp = NoResp

QueryDeparturesForStop ==
    /\ req.op = "departures" /\ resp.op = "none"
    /\ \E afterTime \in {HMS(0, 0, 0), HMS(8, 30, 0)}, limit \in 1..(MaxLimit + 1) :
         \E rows \in DeparturesForStop(req.db, req.stop, req.date, afterTime, limit) :
            resp' = [op |-> "DeparturesForStop", afterTime |-> afterTime,
                     limit |-> limit, rows |-> rows]
    /\ UNCHANGED <<req, U_sched>>

QueryAllDeparturesForStopRoute ==
    /\ req.op = "departures" /\ resp.op = "none"
    /\ \E routeID \in {"R1", "R2"}, directionID \in {0, 1} :
         \E times \in AllDeparturesForStopRoute(req.db, req.stop, routeID,
                                                directionID, req.date) :
            resp' = [op |-> "AllDeparturesForStopRoute", routeID |-> routeID,
                     directionID |-> directionID, times |-> times]
    /\ UNCHANGED <<req, U_sched>>

NextCalendar == QueryDeparturesForStop \/ QueryAllDeparturesForStopRoute

SpecCalendar == InitCalendar /\ [][NextCalendar]_vars

(***************************************************************************)
(* The merge: fetchDepartures at noon of day 1, every service running.     *)
(***************************************************************************)
Realtime(trip, time, actual) ==
    [TripID |-> trip, RouteID |-> "R1", DirectionID |-> 0,
     DepartureTime |-> time, Actual |-> actual]

\* an instant of day 1
At(h, m, s) == SecondsPerDay + h * SecondsPerHour + m * SecondsPerMinute + s

MergeStopTimes ==
    {t1 \cup t2 \cup t4 :
        t1 \in {{}} \cup {{StopTime("T1", "S1", time)} :
                   time \in {HMS(11, 59, 30), HMS(12, 0, 30), HMS(12, 1, 0), HMS(12, 3, 0)}},
        t2 \in {{}} \cup {{StopTime("T2", "S1", time)} :
                   time \in {HMS(12, 1, 0), HMS(12, 3, 10)}},
        t4 \in {{}, {StopTime("T4", "S1", HMS(12, 10, 0))}}}

\* the realtime source's entries: one of the scheduled trip T1, one of a trip the
\* schedule does not have
RealtimeFeeds ==
    {r1 \o r9 :
        r1 \in {<<>>} \cup {<<Realtime("T1", time, actual)>> :
                  time \in {At(12, 1, 30), At(12, 2, 30), At(12, 2, 59), At(12, 5, 30)},
                  actual \in BOOLEAN},
        r9 \in {<<>>, <<Realtime("T9", At(11, 58, 0), TRUE)>>,
                <<Realtime("T9", At(11, 59, 20), TRUE)>>,
                <<Realtime("T9", At(12, 2, 0), TRUE)>>,
                <<Realtime("T9", At(12, 2, 0), FALSE)>>}}

MergeRequests ==
    {[op |-> "fetchDepartures",
      db |-> [stop_times |-> st, trips |-> FeedTrips,
              calendar |-> {CalendarRow("WK", AllWeek, 1, MaxDate),
                            CalendarRow("XS", AllWeek, 1, MaxDate)},
              calendar_dates |-> {}],
      stop |-> "S1", now |-> At(12, 0, 0), clock |-> At(12, 0, 0) + elapsed,
      limit |-> limit, rt |-> rt, ntErr |-> ntErr, dbErr |-> dbErr] :
        st \in MergeStopTimes, rt \in RealtimeFeeds, elapsed \in {0, 1},
        limit \in 1..MaxLimit, ntErr \in BOOLEAN, dbErr \in BOOLEAN}

\* ten past midnight of day 2: trip T4 of the service WK leaves the stop at 24:30:00
\* of its service day; WK runs every day, or on day 1 only
OvernightRequests ==
    {[op |-> "fetchDepartures",
      db |-> [stop_times |-> {StopTime("T4", "S1", HMS(24, 30, 0))} \cup early,
              trips |-> FeedTrips,
              calendar |-> {CalendarRow("WK", days, 1, MaxDate)},
              calendar_dates |-> {}],
      stop |-> "S1", now |-> At(24, 10, 0), clock |-> At(24, 10, 0),
      limit |-> limit, rt |-> <<>>, ntErr |-> ntErr, dbErr |-> FALSE] :
        early \in {{}, {StopTime("T1", "S1", HMS(0, 15, 0))}},
        days \in {AllWeek, OnlyDay(Weekday(1))},
        limit \in 1..MaxLimit, ntErr \in BOOLEAN}

InitDepartures ==
    Serving /\ req \in MergeRequests \cup OvernightRequests /\ resp = NoResp

FetchDepartures ==
    /\ req.op = "fetchDepartures" /\ resp.op = "none"
    /\ \E result \in fetchDepartures(req) :
          resp' = [op |-> "fetchDepartures", result |-> result]
    /\ UNCHANGED <<req, U_sched>>

SpecDepartures == InitDepartures /\ [][FetchDepartures]_vars


(***************************************************************************)
(* The nearby search.  A stop's position is its offset in metres east and  *)
(* north of the query point; `departures` is what fetchDepartures returns  *)
(* for the stop.                                                           *)
(***************************************************************************)
radiusTiers == <<450, 900, 1800, 3600, 7200, 14400>>
companionRadius == 50
StopsPageLimit == 5
PartialRoutesLimit == 10

nextRadius(current) ==
    LET above == {i \in 1..Len(radiusTiers) : radiusTiers[i] > current}
    IN  IF above = {} THEN [radius |-> 0, ok |-> FALSE]
        ELSE [radius |-> radiusTiers[CHOOSE i \in above : \A j \in above : i <= j],
              ok |-> TRUE]

dbLimitForRadius(halfSideMeters) ==
    IF halfSideMeters <= 450 THEN [dbLimit |-> 15, displayLimit |-> 10]
    ELSE IF halfSideMeters <= 900 THEN [dbLimit |-> 40, displayLimit |-> 25]
    ELSE IF halfSideMeters <= 1800 THEN [dbLimit |-> 80, displayLimit |-> 50]
    ELSE IF halfSideMeters <= 3600 THEN [dbLimit |-> 150, displayLimit |-> 100]
    ELSE IF halfSideMeters <= 7200 THEN [dbLimit |-> 300, displayLimit |-> 200]
    ELSE [dbLimit |-> 500, displayLimit |-> 300]

Abs(x) == IF x < 0 THEN -x ELSE x

\* BoundingBoxRadius and the WHERE clause on stops_rtree: the box of half-side
\* halfSide metres, its longitude side widened by 1/cos(lat)
InBox(s, halfSide) == Abs(s.dx) <= halfSide /\ Abs(s.dy) <= halfSide

\* ORDER BY the squared distance in degrees; at the latitude of 45 degrees a degree
\* of longitude is cos(45) of a degree of latitude, so east-west metres count double
BySquaredDegrees(rows) == [s \in rows |-> s.dy * s.dy + 2 * s.dx * s.dx]

\* the row lists NearbyStops may return
NearbyStops(stops, halfSide, limit) ==
    LET hits == {s \in stops : InBox(s, halfSide)}
    IN  {Limit(f, limit) : f \in Ascending(hits, BySquaredDegrees(hits))}

\* geo.Haversine between two stops, squared: over these distances the great circle
\* is the straight line
HaversineSquared(a, b) == (a.dx - b.dx) * (a.dx - b.dx) + (a.dy - b.dy) * (a.dy - b.dy)

\* a page that reports more when the list ends exactly at the page's end
PaginateInclusive(all, offset, limit) ==
    IF offset >= Len(all) THEN [items |-> <<>>, hasMore |-> FALSE]
    ELSE [items |-> SubSeq(all, offset + 1, Min(offset + limit, Len(all))),
          hasMore |-> offset + limit <= Len(all)]

\* the "Paginate" block of both views
Paginate(all, offset, limit) ==
    IF offset >= Len(all) THEN [items |-> <<>>, hasMore |-> FALSE]
    ELSE [items |-> SubSeq(all, offset + 1, Min(offset + limit, Len(all))),
          hasMore |-> offset + limit < Len(all)]

StopView(row) == [StopID |-> row.stop_id, RouteGroups |-> row.departures]

\* findNearbyStopsView, lines 406-420: the lists of stop views it may build
allStopViews(stops, halfSide) ==
    {[i \in 1..Len(rows) |-> StopView(rows[i])] :
        rows \in NearbyStops(stops, halfSide, dbLimitForRadius(halfSide).dbLimit)}

\* the pages findNearbyStopsView may return
findNearbyStopsView(stops, offset, limit, halfSide) ==
    {Paginate(all, offset, limit) : all \in allStopViews(stops, halfSide)}

\* findNearbyRoutes, lines 220-246: the display stops and their companions
FetchStops(rows, displayLimit) ==
    LET displayStops == Limit(rows, displayLimit)
        Companion(c) == \E i \in 1..Len(displayStops) :
                           /\ c.stop_id # displayStops[i].stop_id
                           /\ HaversineSquared(displayStops[i], c)
                                 <= companionRadius * companionRadius
    IN  displayStops \o SelectSeq(SubSeq(rows, Len(displayStops) + 1, Len(rows)), Companion)

\* lines 263-284: the departures of the fetched stops in order, each with its stop
RECURSIVE StopDepartures(_)
StopDepartures(fetchStops) ==
    IF fetchStops = <<>> THEN <<>>
    ELSE [i \in 1..Len(Head(fetchStops).departures) |->
            [stop |-> Head(fetchStops).stop_id, dep |-> Head(fetchStops).departures[i]]]
         \o StopDepartures(Tail(fetchStops))

\* the groups by route and direction in order of first appearance, each with the
\* stop that opened it and its first three departures
RECURSIVE RouteGroups(_, _)
RouteGroups(deps, groups) ==
    IF deps = <<>> THEN groups
    ELSE LET x == Head(deps)
             at == {i \in 1..Len(groups) : /\ groups[i].RouteID = x.dep.RouteID
                                           /\ groups[i].DirectionID = x.dep.DirectionID}
             g == CHOOSE i \in at : TRUE
         IN  IF at = {}
             THEN RouteGroups(Tail(deps),
                     Append(groups, [RouteID |-> x.dep.RouteID,
                                     DirectionID |-> x.dep.DirectionID,
                                     stopID |-> x.stop, deps |-> <<x>>]))
             ELSE RouteGroups(Tail(deps),
                     IF Len(groups[g].deps) < 3
                     THEN [groups EXCEPT ![g].deps = Append(@, x)] ELSE groups)

\* lines 287-332: one row per group
RouteNearbyRow(g) ==
    [RouteID |-> g.RouteID, DirectionID |-> g.DirectionID, StopID |-> g.stopID,
     MinutesAway |-> g.deps[1].dep.MinutesAway, LaterTimes |-> Tail(g.deps),
     HasAlt |-> FALSE, AltStopID |-> "", AltMinutesAway |-> 0, AltDirectionID |-> 0]

\* a pairing that leaves the paired-away row in the list
RECURSIVE PairDirectionsKeepBoth(_, _)
PairDirectionsKeepBoth(rows, i) ==
    IF i > Len(rows) THEN rows
    ELSE LET opposite == {j \in 1..Len(rows) :
                             /\ j # i /\ ~rows[j].HasAlt
                             /\ rows[j].RouteID = rows[i].RouteID
                             /\ rows[j].DirectionID # rows[i].DirectionID}
             j == CHOOSE j \in opposite : \A k \in opposite : j <= k
             pi == IF rows[j].MinutesAway < rows[i].MinutesAway THEN j ELSE i
             ai == IF pi = i THEN j ELSE i
         IN  IF rows[i].HasAlt \/ opposite = {} THEN PairDirectionsKeepBoth(rows, i + 1)
             ELSE PairDirectionsKeepBoth(
                     [rows EXCEPT ![pi].HasAlt = TRUE,
                                  ![pi].AltStopID = rows[ai].StopID,
                                  ![pi].AltMinutesAway = rows[ai].MinutesAway,
                                  ![pi].AltDirectionID = rows[ai].DirectionID], i + 1)

\* lines 335-374: cross-stop direction pairing, from row i on; AltDirectionID names the
\* direction of the row the Alt fields are copied from
RECURSIVE PairDirections(_, _)
PairDirections(rows, i) ==
    IF i > Len(rows) THEN rows
    ELSE LET opposite == {j \in 1..Len(rows) :
                             /\ j # i /\ ~rows[j].HasAlt
                             /\ rows[j].RouteID = rows[i].RouteID
                             /\ rows[j].DirectionID # rows[i].DirectionID}
             j == CHOOSE j \in opposite : \A k \in opposite : j <= k
             pi == IF rows[j].MinutesAway < rows[i].MinutesAway THEN j ELSE i
             ai == IF pi = i THEN j ELSE i
         IN  IF rows[i].HasAlt \/ opposite = {} THEN PairDirections(rows, i + 1)
             ELSE PairDirections(
                     [rows EXCEPT ![pi].HasAlt = TRUE,
                                  ![pi].AltStopID = rows[ai].StopID,
                                  ![pi].AltMinutesAway = rows[ai].MinutesAway,
                                  ![pi].AltDirectionID = rows[ai].DirectionID,
                                  ![ai].RouteID = ""], i + 1)

\* findNearbyRoutes, lines 204-382: the lists of route rows it may build
cleanedRoutes(stops, halfSide) ==
    {LET groups == RouteGroups(StopDepartures(
                      FetchStops(rows, dbLimitForRadius(halfSide).displayLimit)), <<>>)
         allRoutes == PairDirections([i \in 1..Len(groups) |-> RouteNearbyRow(groups[i])], 1)
     IN  SelectSeq(allRoutes, LAMBDA row : row.RouteID # "") :
        rows \in NearbyStops(stops, halfSide, dbLimitForRadius(halfSide).dbLimit)}

\* the pages findNearbyRoutes may return
findNearbyRoutes(stops, offset, limit, halfSide) ==
    {Paginate(cleaned, offset, limit) : cleaned \in cleanedRoutes(stops, halfSide)}


\* Nearby, lines 75-78 and 95, 128-131
FirstRadius(radius) == IF radius <= 0 THEN radiusTiers[1] ELSE radius
PageLimit(view, partial) ==
    IF view = "stops" THEN StopsPageLimit
    ELSE IF partial THEN PartialRoutesLimit ELSE StopsPageLimit

FindNearby(r, offset, radius) ==
    IF r.view = "stops"
    THEN findNearbyStopsView(r.stops, offset, PageLimit(r.view, r.partial), radius)
    ELSE findNearbyRoutes(r.stops, offset, PageLimit(r.view, r.partial), radius)

\* lines 101-114 and 137-150: the auto-advance loop, from the page of the tier
\* `radius`; the outcomes it may end with
RECURSIVE AutoAdvance(_, _, _, _)
AutoAdvance(r, page, newOffset, radius) ==
    IF ~page.hasMore /\ Len(page.items) = 0 /\ newOffset > 0 /\ nextRadius(radius).ok
    THEN UNION {AutoAdvance(r, p, newOffset + Len(p.items), nextRadius(radius).radius) :
                  p \in FindNearby(r, newOffset, nextRadius(radius).radius)}
    ELSE {[page |-> page, newOffset |-> newOffset, radius |-> radius]}

\* lines 115-125 and 151-161: what the page is rendered from
NearbyData(r, end) ==
    LET more == end.page.hasMore
        wider == ~more /\ end.newOffset > 0 /\ nextRadius(end.radius).ok
    IN  [op |-> "Nearby", items |-> end.page.items, radius |-> end.radius,
         HasStops |-> Len(end.page.items) > 0 \/ r.offset > 0,
         HasMore |-> more \/ wider,
         MoreOffset |-> IF more \/ wider THEN end.newOffset ELSE 0,
         MoreRadius |-> IF more THEN end.radius
                        ELSE IF wider THEN nextRadius(end.radius).radius ELSE 0]

\* the responses Nearby may give to the request r
NearbyResponses(r) ==
    UNION {{NearbyData(r, end) :
              end \in AutoAdvance(r, p, r.offset + Len(p.items), FirstRadius(r.radius))} :
           p \in FindNearby(r, r.offset, FirstRadius(r.radius))}

(***************************************************************************)
(* The stops of the feed around the query point: six inside the first      *)
(* tier, one in the second, one in the third.                              *)
(***************************************************************************)
MaxOffset == 5

Dep(route, direction, minutes) ==
    [RouteID |-> route, DirectionID |-> direction, MinutesAway |-> minutes]

Stop(id, dx, dy, departures) ==
    [stop_id |-> id, dx |-> dx, dy |-> dy, departures |-> departures]

FeedStops ==
    {Stop("a", 100, 50, <<Dep("R1", 0, 3), Dep("R2", 0, 5), Dep("R1", 0, 13)>>),
     Stop("b", -200, 100, <<Dep("R1", 1, 4)>>),
     Stop("c", 300, 0, <<Dep("R3", 0, 2), Dep("R1", 0, 7)>>),
     Stop("d", 0, 400, <<Dep("R4", 0, 6)>>),
     Stop("e", -50, -300, <<Dep("R5", 0, 1)>>),
     Stop("f", 400, 400, <<Dep("R6", 0, 9), Dep("R7", 0, 10)>>),
     Stop("g", 600, 100, <<Dep("R2", 1, 1), Dep("R8", 0, 8)>>),
     Stop("h", 0, -1500, <<>>)}

NearbyRequests ==
    {[op |-> "Nearby", stops |-> stops, view |-> view, partial |-> partial,
      offset |-> offset, radius |-> radius] :
        stops \in SUBSET FeedStops, view \in {"stops", "routes"}, partial \in BOOLEAN,
        offset \in 0..MaxOffset,
        radius \in {0} \cup {radiusTiers[i] : i \in 1..Len(radiusTiers)}}

InitNearby == Serving /\ req \in NearbyRequests /\ resp = NoResp

Nearby ==
    /\ req.op = "Nearby" /\ resp.op = "none"
    /\ \E data \in NearbyResponses(req) : resp' = data
    /\ UNCHANGED <<req, U_sched>>

SpecNearby == InitNearby /\ [][Nearby]_vars


(***************************************************************************)
(* The update cycle at the grain of rows: what an archive's files hold     *)
(* decides what ParseZip and Import do with it.  A store is its tables,    *)
(* each the set of its rows; a column no statement of the program compares *)
(* is left out.  Coordinates are numbers on a grid of which every          *)
(* FloatStep-th point is a 32-bit float.                                   *)
(***************************************************************************)
FloatStep == 4

ArchiveFiles == {"agency.txt", "routes.txt", "stops.txt", "trips.txt", "calendar.txt",
                 "calendar_dates.txt", "stop_times.txt", "shapes.txt"}

\* the store after Open and migrate: the schema with no row
EmptyStore ==
    [agency |-> {}, routes |-> {}, stops |-> {}, calendar |-> {}, calendar_dates |-> {},
     trips |-> {}, stop_times |-> {}, shapes |-> {}, stops_rtree |-> {},
     feed_metadata |-> {}, users |-> {}, device_sessions |-> {}]

\* a file's records, none when the archive has no such file
FileRows(archive, name, rows) == IF name \in archive.files THEN rows ELSE {}

\* ParseZip: the files it knows are decoded, a name the archive lacks leaves its
\* collection empty, and no file's absence is an error
ParseFeed(archive) ==
    [Agencies |-> FileRows(archive, "agency.txt", archive.agency),
     Routes |-> FileRows(archive, "routes.txt", archive.routes),
     Stops |-> IF "stops.txt" \in archive.files THEN archive.stops ELSE <<>>,
     Trips |-> FileRows(archive, "trips.txt", archive.trips),
     Calendar |-> FileRows(archive, "calendar.txt", archive.calendar),
     CalendarDates |-> FileRows(archive, "calendar_dates.txt", archive.calendar_dates)]

\* a clearing that deletes from every table of the schema
DeleteAllTables(tx0) == [t \in DOMAIN tx0 |-> {}]

\* clearTables on the transaction: DELETE FROM each table of its list
DeleteAll(tx0) ==
    [t \in DOMAIN tx0 |->
        IF t \in {FeedTables[i] : i \in 1..Len(FeedTables)} \cup {"feed_metadata"}
        THEN {} ELSE tx0[t]]

importAgencies(tx0, agencies) == [tx0 EXCEPT !.agency = agencies]

\* agency_id REFERENCES agency(agency_id): the column is bound as a string, never NULL
importRoutesFails(tx0, routes) == \E r \in routes : r.agency_id \notin tx0.agency

importRoutes(tx0, routes) == [tx0 EXCEPT !.routes = routes]

\* stop_id is the primary key of stops: a second row with the same id fails
importStopsFails(tx0, stops) ==
    \E i, j \in 1..Len(stops) : i # j /\ stops[i].stop_id = stops[j].stop_id

\* the rows go in file order into the emptied table, so the n-th gets rowid n
importStops(tx0, stops) ==
    [tx0 EXCEPT !.stops = {[rowid |-> i, stop_id |-> stops[i].stop_id,
                            stop_lat |-> stops[i].stop_lat,
                            stop_lon |-> stops[i].stop_lon] : i \in 1..Len(stops)}]

importCalendar(tx0, entries) == [tx0 EXCEPT !.calendar = entries]
importCalendarDates(tx0, dates) == [tx0 EXCEPT !.calendar_dates = dates]

\* trips without the check of route_id REFERENCES routes
importTripsUnchecked(tx0, trips) == FALSE

\* route_id REFERENCES routes(route_id), with foreign_keys=on
importTripsFails(tx0, trips) ==
    \E t \in trips : t.route_id \notin {r.route_id : r \in tx0.routes}

importTrips(tx0, trips) == [tx0 EXCEPT !.trips = trips]

\* streamStopTimes: stop_times.txt must be in the archive; trip_id REFERENCES trips
\* and stop_id REFERENCES stops
streamStopTimesFails(tx0, archive) ==
    \/ "stop_times.txt" \notin archive.files
    \/ \E st \in archive.stop_times :
          \/ st.trip_id \notin {t.trip_id : t \in tx0.trips}
          \/ st.stop_id \notin {s.stop_id : s \in tx0.stops}

streamStopTimes(tx0, archive) == [tx0 EXCEPT !.stop_times = archive.stop_times]

\* streamShapes: shapes.txt is optional
streamShapes(tx0, archive) ==
    [tx0 EXCEPT !.shapes = FileRows(archive, "shapes.txt", archive.shapes)]

\* the R*Tree stores 32-bit floats: a lower bound is rounded down and an upper
\* bound up to the nearest one
RoundDown(x) == x - (x % FloatStep)
RoundUp(x) == IF x % FloatStep = 0 THEN x ELSE RoundDown(x) + FloatStep

\* an import that does not rebuild the index
PopulateRTreeSkipped(tx0) == tx0

\* RebuildRTree on the transaction: DELETE FROM stops_rtree, then INSERT ... SELECT
\* rowid, stop_lat, stop_lat, stop_lon, stop_lon FROM stops
PopulateRTree(tx0) ==
    [tx0 EXCEPT !.stops_rtree =
        {[id |-> s.rowid,
          min_lat |-> RoundDown(s.stop_lat), max_lat |-> RoundUp(s.stop_lat),
          min_lon |-> RoundDown(s.stop_lon), max_lon |-> RoundUp(s.stop_lon)]
         : s \in tx0.stops}]

\* INSERT OR REPLACE INTO feed_metadata (key, value)
Upsert(rows, key, value) == {r \in rows : r.key # key} \cup {[key |-> key, value |-> value]}

\* Import, lines 75-92: imported_at always, a validator only when the download had one
StoreMetadata(tx0, clock, lastModified, tag) ==
    LET a == Upsert(tx0.feed_metadata, "imported_at", clock)
        b == IF lastModified # 0 THEN Upsert(a, "last_modified", lastModified) ELSE a
        c == IF tag # 0 THEN Upsert(b, "etag", tag) ELSE b
    IN  [tx0 EXCEPT !.feed_metadata = c]

\* the outcome of update: its error and the store it leaves
Outcome(err, db) == [op |-> "update", err |-> err, db |-> db]

\* update: ParseZip, then Import in one transaction; an error rolls it back, so the
\* store is the one the transaction found
update(r) ==
    LET feed == ParseFeed(r.archive)
        t0 == importAgencies(DeleteAll(r.db), feed.Agencies)
        t1 == importRoutes(t0, feed.Routes)
        t2 == importStops(t1, feed.Stops)
        t3 == importCalendarDates(importCalendar(t2, feed.Calendar), feed.CalendarDates)
        t4 == importTrips(t3, feed.Trips)
        t5 == streamShapes(streamStopTimes(t4, r.archive), r.archive)
        t6 == StoreMetadata(PopulateRTree(t5), r.clock, r.lastModified, r.etag)
    IN  IF importRoutesFails(t0, feed.Routes) THEN Outcome("importRoutes", r.db)
        ELSE IF importStopsFails(t1, feed.Stops) THEN Outcome("importStops", r.db)
        ELSE IF importTripsFails(t3, feed.Trips) THEN Outcome("importTrips", r.db)
        ELSE IF streamStopTimesFails(t4, r.archive) THEN Outcome("streamStopTimes", r.db)
        ELSE Outcome("nil", t6)

\* the feeds the archives are made of
StopRow(id, lat, lon) == [stop_id |-> id, stop_lat |-> lat, stop_lon |-> lon]
TripRow(trip, route) == [trip_id |-> trip, route_id |-> route]
StopTimeRow(trip, stop) == [trip_id |-> trip, stop_id |-> stop, stop_sequence |-> 1]

ArchiveOf(files, stops, trips, stopTimes) ==
    [files |-> files, agency |-> {"A1"},
     routes |-> {[route_id |-> "R1", agency_id |-> "A1"]}, stops |-> stops,
     calendar |-> {"WK"}, calendar_dates |-> {[service_id |-> "WK", date |-> 1]},
     trips |-> trips, stop_times |-> stopTimes, shapes |-> {"P1"}]

\* every choice of files; stops on and off the 32-bit grid, and one id twice; a trip
\* of a route the feed has and of one it lacks; no stop_time, a stop_time of a trip
\* and a stop the feed has, of a stop it lacks, of a trip it lacks
Archives ==
    {ArchiveOf(files, stops, trips, stopTimes) :
        files \in SUBSET ArchiveFiles,
        stops \in {<<StopRow("S1", 8, 12)>>, <<StopRow("S1", 8, 12), StopRow("S2", 9, 6)>>,
                   <<StopRow("S1", 8, 12), StopRow("S1", 9, 6)>>},
        trips \in {{TripRow("T1", "R1")}, {TripRow("T1", "R2")}},
        stopTimes \in {{}, {StopTimeRow("T1", "S1")}, {StopTimeRow("T1", "S3")},
                       {StopTimeRow("T2", "S1")}}}

UpdateRequest(archive, clock, lastModified, tag, db) ==
    [op |-> "update", archive |-> archive, clock |-> clock,
     lastModified |-> lastModified, etag |-> tag, db |-> db]

\* the stores an update may find: the migrated empty one, and the one an earlier
\* update of a whole feed left
FirstImport ==
    update(UpdateRequest(ArchiveOf(ArchiveFiles,
                                   <<StopRow("S1", 8, 12), StopRow("S3", 5, 7),
                                     StopRow("S2", 9, 6)>>,
                                   {TripRow("T1", "R1"), TripRow("T2", "R1")},
                                   {StopTimeRow("T2", "S3")}),
                         1, 1, 1, EmptyStore)).db

\* a download's Last-Modified and ETag: MaxFeed names the new feed, 0 a header the
\* response lacks
UpdateRequests ==
    {UpdateRequest(archive, 2, lastModified, tag, db) :
        archive \in Archives, lastModified \in {0, MaxFeed}, tag \in {0, MaxFeed},
        db \in {EmptyStore, FirstImport}}

InitImport == Serving /\ req \in UpdateRequests /\ resp = NoResp

\* one update cycle on the store the request names
Update ==
    /\ req.op = "update" /\ resp.op = "none"
    /\ resp' = update(req)
    /\ UNCHANGED <<req, U_sched>>

SpecImport == InitImport /\ [][Update]_vars


(***************************************************************************)
(* Headway detection.                                                      *)
(***************************************************************************)
IntervalTolerance == 2
MinConsistent == 3
DisplayStep == 5

\* parseGTFSTime: the instant h hours, m minutes and s seconds after the midnight
\* of the day of t
parseGTFSTime(gtfsTime, t) ==
    LET hms == Sscanf(gtfsTime)
    IN  Midnight(t) + hms.h * SecondsPerHour + hms.m * SecondsPerMinute + hms.s

\* detectInterval, lines 18-27: the times not before the clock's text, parsed
futureTimes(times, t) ==
    LET kept == SelectSeq(times, LAMBDA x : ~StrLess(x, FormatClock(t)))
    IN  [i \in 1..Len(kept) |-> parseGTFSTime(kept[i], t)]

\* lines 33-40: the whole minutes between consecutive departures, the positive ones
intervalsOf(future) ==
    LET diffs == [i \in 1..(Len(future) - 1) |-> TruncMinutes(future[i + 1] - future[i])]
    IN  SelectSeq(diffs, LAMBDA d : d > 0)

\* lines 64-67: the current run replaces the best when it is longer
closeRun(st) ==
    IF st.curLen > st.bestLen
    THEN [st EXCEPT !.bestStart = st.curStart, !.bestLen = st.curLen]
    ELSE st

\* abs(intervals[i]-intervals[curStart]) <= 2
withinTolerance(a, b) == Abs(a - b) <= IntervalTolerance

\* lines 52-63: the loop from index i on; indices count from 0 as in the code
RECURSIVE longestRun(_, _, _)
longestRun(intervals, i, st) ==
    IF i >= Len(intervals) THEN closeRun(st)
    ELSE IF withinTolerance(intervals[i + 1], intervals[st.curStart + 1])
    THEN longestRun(intervals, i + 1, [st EXCEPT !.curLen = @ + 1])
    ELSE longestRun(intervals, i + 1,
                    [closeRun(st) EXCEPT !.curStart = i, !.curLen = 1])

RECURSIVE SumFrom(_, _, _)
SumFrom(intervals, first, n) ==
    IF n = 0 THEN 0 ELSE intervals[first + 1] + SumFrom(intervals, first + 1, n - 1)

\* lines 81-85
rounded(avgInterval) ==
    IF ((avgInterval + 2) \div DisplayStep) * DisplayStep = 0 THEN avgInterval
    ELSE ((avgInterval + 2) \div DisplayStep) * DisplayStep

NoInterval == [op |-> "detectInterval", text |-> "", minutes |-> 0, until |-> NoTime]

\* the pattern's end at the last departure of the series
endIndexLast(run, future) == Len(future) - 1

\* lines 89-92
endIndex(run, future) ==
    IF run.bestStart + run.bestLen >= Len(future) THEN Len(future) - 1
    ELSE run.bestStart + run.bestLen

\* detectInterval on the times the query returned
intervalOf(times, t) ==
    LET future == futureTimes(times, t)
        intervals == intervalsOf(future)
        run == longestRun(intervals, 1,
                          [bestStart |-> 0, bestLen |-> 1, curStart |-> 0, curLen |-> 1])
        avgInterval == SumFrom(intervals, run.bestStart, run.bestLen) \div run.bestLen
    IN  IF Len(times) < 3 \/ Len(future) < 3 \/ Len(intervals) < 2
           \/ run.bestLen < MinConsistent
        THEN NoInterval
        ELSE [op |-> "detectInterval", text |-> "Every", minutes |-> rounded(avgInterval),
              until |-> Format12(future[endIndex(run, future) + 1])]

\* the strings detectInterval may return
detectInterval(r) ==
    IF r.dbErr THEN {NoInterval}
    ELSE {intervalOf(times, r.now) :
            times \in AllDeparturesForStopRoute(r.db, r.stop, r.route, r.direction,
                                                DateOf(r.now))}

\* the series of one stop, route and direction: departures from 12:00 on, each a gap
\* of MaxGaps or fewer after the one before
MaxGaps == 4
Gaps == {0, 7, 8, 18, 20, 22, 35}

GapSeries == UNION {[1..n -> Gaps] : n \in 2..MaxGaps}

RECURSIVE MinuteOf(_, _)
MinuteOf(gaps, k) == IF k = 0 THEN 0 ELSE gaps[k] + MinuteOf(gaps, k - 1)

SeriesStopTimes(gaps) ==
    {StopTime(k + 1, "S1", HMS(12 + MinuteOf(gaps, k) \div 60, MinuteOf(gaps, k) % 60, 0)) :
        k \in 0..Len(gaps)}

IntervalRequests ==
    {[op |-> "detectInterval",
      db |-> [stop_times |-> SeriesStopTimes(gaps),
              trips |-> {[trip_id |-> k, route_id |-> "R1", service_id |-> "WK",
                          direction_id |-> 0] : k \in 1..(MaxGaps + 1)},
              calendar |-> {CalendarRow("WK", AllWeek, 1, MaxDate)},
              calendar_dates |-> {}],
      stop |-> "S1", route |-> "R1", direction |-> 0, now |-> t, gaps |-> gaps,
      dbErr |-> dbErr] :
        gaps \in GapSeries, t \in {At(11, 50, 0), At(12, 0, 1)}, dbErr \in BOOLEAN}

InitInterval == Serving /\ req \in IntervalRequests /\ resp = NoResp

DetectInterval ==
    /\ req.op = "detectInterval" /\ resp.op = "none"
    /\ \E out \in detectInterval(req) : resp' = out
    /\ UNCHANGED <<req, U_sched>>

SpecInterval == InitInterval /\ [][DetectInterval]_vars

(***************************************************************************)
(* Stored times: their rendering and their order.                          *)
(***************************************************************************)
MaxHour == 26

\* the text stop_times.txt holds for a time; streamStopTimes stores it as it is read, and
\* a feed writes hours below 10 with two digits or with one
FeedTime(h, m, s, padded) ==
    IF padded \/ h >= 10 THEN HMS(h, m, s)
    ELSE <<h>> \o <<Colon>> \o Pad2(m) \o <<Colon>> \o Pad2(s)

StoredTimes ==
    {[text |-> FeedTime(h, m, 0, padded), h |-> h, m |-> m] :
        h \in 0..MaxHour, m \in {0, 15, 30, 59}, padded \in BOOLEAN}

ClockRequests ==
    {[op |-> "formatGTFSTime", time |-> t] : t \in StoredTimes}
        \cup {[op |-> "compare", t1 |-> a, t2 |-> b, now |-> At(0, 0, 0)] :
                a \in {t \in StoredTimes : t.m \in {0, 30}},
                b \in {t \in StoredTimes : t.m \in {0, 30}}}

InitClock == Serving /\ req \in ClockRequests /\ resp = NoResp

\* the template's call of formatGTFSTime on a stored time
FormatGTFSTime ==
    /\ req.op = "formatGTFSTime" /\ resp.op = "none"
    /\ resp' = [op |-> "formatGTFSTime", shown |-> formatGTFSTime(req.time.text)]
    /\ UNCHANGED <<req, U_sched>>

\* two stored times as the queries and detectInterval order them (t1 < t2 as text), and
\* as parseGTFSTime places them on the day of now
CompareTimes ==
    /\ req.op = "compare" /\ resp.op = "none"
    /\ resp' = [op |-> "compare",
                less |-> StrLess(req.t1.text, req.t2.text),
                at1 |-> parseGTFSTime(req.t1.text, req.now),
                at2 |-> parseGTFSTime(req.t2.text, req.now)]
    /\ UNCHANGED <<req, U_sched>>

NextClock == FormatGTFSTime \/ CompareTimes

SpecClock == InitClock /\ [][NextClock]_vars

(***************************************************************************)
(* The HTTP server's middleware.  A path is the sequence of its segments:  *)
(* <<"static", "app.css">> is /static/app.css, <<"static">> is /static and *)
(* <<>> is /.                                                              *)
(***************************************************************************)
Paths == {<<>>, <<"nearby">>, <<"search">>, <<"routes">>, <<"routes", "4">>, <<"stops", "S1">>,
          <<"sse", "departures", "S1">>, <<"logout">>, <<"static">>, <<"static", "app.css">>,
          <<"sw.js">>, <<"manifest.json">>, <<"offline">>, <<"login">>, <<"register">>,
          <<"login", "x">>}

HttpRequests ==
    {[op |-> "http", path |-> p, session |-> c] :
        p \in Paths, c \in {"none", "invalid", "valid"}}

\* strings.HasPrefix(p, "/static/")
HasStaticPrefix(p) == Len(p) >= 2 /\ p[1] = "static"

\* the mux: the request reaches the handler registered for its method and path, which
\* answers with a status of its own
ServeMux(r) ==
    {[op |-> "http", status |-> code, body |-> "page", passed |-> TRUE, reached |-> TRUE] :
        code \in {200, 404}}

\* requireAuth: public paths go on; the others need a valid session cookie
requireAuth(r) ==
    IF r.path \in {<<"login">>, <<"register">>, <<"offline">>, <<"sw.js">>,
                   <<"manifest.json">>} \/ HasStaticPrefix(r.path)
    THEN ServeMux(r)
    ELSE IF r.session # "valid"
    THEN {[op |-> "http", status |-> 303, body |-> "/login", passed |-> TRUE,
           reached |-> FALSE]}
    ELSE ServeMux(r)

\* a middleware that lets every request through
waitForDataOpen(r, isReady) == requireAuth(r)

\* waitForData: a closed ready channel passes the request on; before that only static
\* assets, PWA files and the auth pages pass, the rest gets the loading page
waitForData(r, isReady) ==
    IF isReady THEN requireAuth(r)
    ELSE IF HasStaticPrefix(r.path)
            \/ r.path \in {<<"sw.js">>, <<"manifest.json">>, <<"offline">>, <<"login">>,
                           <<"register">>}
    THEN requireAuth(r)
    ELSE {[op |-> "http", status |-> 503, body |-> "loadingPage", passed |-> FALSE,
           reached |-> FALSE]}

\* server.New over a store with or without data: ready is closed at once when
\* HasData; a request arrives
InitReady ==
    /\ \E db \in {DatasetOf(NoFeed), DatasetOf([v |-> 1, lm |-> 1, etag |-> 1])} :
            ServingOver(db)
    /\ ready = HasData(committed)
    /\ req \in HttpRequests
    /\ resp = NoResp

\* Server.SetReady: closes ready unless it is closed
SetReady ==
    /\ ready' = TRUE
    /\ UNCHANGED <<now, lastCheckDate, pc, ret, callDay, lm, etag, status, dl, step, tx, snap,
                   next, writer, committed, serverFeed, importFlag, obs, issued,
                   failedPending, cancelled, cacheEntries, lastSet, cacheNow, req, resp>>

\* withMiddleware: the request goes through waitForData
ServeHTTP ==
    /\ req.op = "http" /\ resp.op = "none"
    /\ resp' \in waitForData(req, ready)
    /\ UNCHANGED <<req, U_sched>>

NextReady == SetReady \/ ServeHTTP

SpecReady == InitReady /\ [][NextReady]_vars

(***************************************************************************)
(* The NexTrip response cache.  Cache.entries is a map: a function whose   *)
(* domain is the set of keys present.                                      *)
(***************************************************************************)
CacheTTL == 2
MaxClock == 4
CacheKeys == {"k1", "k2"}
CacheValues == {"v1", "v2"}

\* a clock that never passes a deadline
AfterNever(t, u) == FALSE

\* time.Time.After
After(t, u) == t > u

\* the map m with key k bound to entry e
Store(m, k, e) == [x \in (DOMAIN m) \cup {k} |-> IF x = k THEN e ELSE m[x]]

\* the map m without the keys of gone
Delete(m, gone) ==
    IF (DOMAIN m) \ gone = {} THEN <<>> ELSE [x \in (DOMAIN m) \ gone |-> m[x]]

\* Cache.Get under the read lock
Get(m, key, t) ==
    IF key \notin DOMAIN m \/ After(t, m[key].expiresAt)
    THEN [op |-> "Get", key |-> key, value |-> "nil", ok |-> FALSE]
    ELSE [op |-> "Get", key |-> key, value |-> m[key].value, ok |-> TRUE]

\* the fields of the process the cache never touches
U_process == <<now, lastCheckDate, pc, ret, callDay, lm, etag, status, dl, step, tx, snap,
               next, writer, committed, serverFeed, importFlag, obs, issued,
               failedPending, cancelled, ready>>

\* NewCache: an empty map
InitCache == Serving /\ req = NoReq /\ resp = NoResp

CacheGet(key) ==
    /\ resp' = Get(cacheEntries, key, cacheNow)
    /\ UNCHANGED <<cacheEntries, lastSet, cacheNow, req, U_process>>

\* Cache.Set under the write lock; the caller of an earlier Get has its answer
CacheSet(key, value) ==
    /\ cacheEntries' = Store(cacheEntries, key,
                             [value |-> value, expiresAt |-> cacheNow + CacheTTL])
    /\ lastSet' = Store(lastSet, key, [value |-> value, at |-> cacheNow])
    /\ resp' = NoResp
    /\ UNCHANGED <<cacheNow, req, U_process>>

\* Cache.cleanup, run by the ticker's goroutine
CacheCleanup ==
    /\ cacheEntries' = Delete(cacheEntries, {k \in DOMAIN cacheEntries :
                                                After(cacheNow, cacheEntries[k].expiresAt)})
    /\ resp' = NoResp
    /\ UNCHANGED <<lastSet, cacheNow, req, U_process>>

\* time passes
CacheTick ==
    /\ cacheNow < MaxClock
    /\ cacheNow' = cacheNow + 1
    /\ resp' = NoResp
    /\ UNCHANGED <<cacheEntries, lastSet, req, U_process>>

NextCache ==
    \/ \E key \in CacheKeys : CacheGet(key)
    \/ \E key \in CacheKeys, value \in CacheValues : CacheSet(key, value)
    \/ CacheCleanup
    \/ CacheTick

SpecCache == InitCache /\ [][NextCache]_vars

(***************************************************************************)
(* Import atomicity.                                                       *)
(***************************************************************************)
ImportFailed(p) == pc[p] = "Import" /\ pc'[p] = "Returned" /\ ret'[p] # "nil"

\* the dataset committed before p's transaction took the write lock
PreviouslyCommitted(p) == IF step[p] = 1 THEN committed ELSE snap[p]

\* C1: whenever Import fails, at whichever statement, the store holds exactly the
\* dataset that was committed before the import began, and that dataset is complete
C1_FailedImportKeepsCommitted ==
    [][\A p \in Procs :
         ImportFailed(p) =>
            committed' = PreviouslyCommitted(p) /\ IsComplete(committed')]_vars

\* an import failed while streaming stop_times, over a store that holds a feed
C1_Witness ==
    \E p \in Procs :
        pc[p] = "Returned" /\ ret[p] = "streamStopTimesEOF" /\ HasData(committed)

C3_OneCheckPerDay ==
    /\ [](\A d \in 1..MaxDay : issued[d] <= 1)
    /\ [][\A p \in Procs :
            (pc[p] = "CheckAndUpdate" /\ pc'[p] # pc[p] /\ lastCheckDate = Today(now))
               => /\ pc'[p] = "Returned" /\ ret'[p] = "nil"
                  /\ UNCHANGED <<committed, tx, writer, dl, issued>>]_vars

\* the startup call issued day 1's check and is updating; the background loop's
\* call of the same day came back from the guard
C3_Witness ==
    /\ pc["startup"] = "Download" /\ issued[1] = 1
    /\ pc["background"] = "Returned" /\ ret["background"] = "nil"
    /\ Today(now) = 1

UpdatePcs == {"Download", "ParseZip", "BeginTx", "Import"}

\* C4: at most one update cycle (download, parse, import) is in progress at any time
C4_OneUpdateCycle ==
    Cardinality({p \in Procs : pc[p] \in UpdatePcs}) <= 1

\* C5: a trigger that follows a failed CheckAndUpdate performs the conditional
\* check again
C5_RetryAfterFailure ==
    [][\A p \in Procs :
         (failedPending /\ pc[p] = "CheckAndUpdate" /\ pc'[p] # pc[p])
            => pc'[p] = "GetLastModified"]_vars

(***************************************************************************)
(* Radius escalation.                                                      *)
(***************************************************************************)
\* the stops of the request inside the tier of half-side radius
StopsInTier(radius) == {s \in req.stops : InBox(s, radius)}

\* C6: a request at the first tier with offset 0, for a point with no stop inside
\* the first tier and stops with departures inside the second, returns the second
\* tier's results
C6_EmptyFirstTierEscalates ==
    (/\ resp.op = "Nearby" /\ req.offset = 0
     /\ FirstRadius(req.radius) = radiusTiers[1]
     /\ StopsInTier(radiusTiers[1]) = {}
     /\ \E s \in StopsInTier(radiusTiers[2]) : s.departures # <<>>)
       => resp.items # <<>> /\ resp.radius = radiusTiers[2]

(***************************************************************************)
(* Service-day resolution.                                                 *)
(***************************************************************************)
\* a service is active on a date when its calendar entry has the weekday set and the
\* date in range and no type-2 exception removes it, or a type-1 exception adds it
ActiveOn(db, service, date) ==
    \/ /\ \E c \in db.calendar :
             /\ c.service_id = service /\ c.days[Weekday(date)] = 1
             /\ c.start_date <= date /\ date <= c.end_date
       /\ ~\E x \in db.calendar_dates :
             x.service_id = service /\ x.date = date /\ x.exception_type = 2
    \/ \E x \in db.calendar_dates :
             x.service_id = service /\ x.date = date /\ x.exception_type = 1

ServiceOf(db, trip) == (CHOOSE t \in db.trips : t.trip_id = trip).service_id
RouteOf(db, trip) == (CHOOSE t \in db.trips : t.trip_id = trip).route_id
DirectionOf(db, trip) == (CHOOSE t \in db.trips : t.trip_id = trip).direction_id
SecondsOf(time) ==
    Sscanf(time).h * SecondsPerHour + Sscanf(time).m * SecondsPerMinute + Sscanf(time).s

\* the stop times at the request's stop of the trips whose service is active
ActiveAtStop ==
    {st \in req.db.stop_times :
        st.stop_id = req.stop /\ ActiveOn(req.db, ServiceOf(req.db, st.trip_id), req.date)}

\* C7: the date-scoped departure queries return the departures of exactly the trips
\* whose service is active on the date: DeparturesForStop the earliest `limit` of
\* them at or after the time floor, AllDeparturesForStopRoute every one of the
\* route and direction
C7_ActiveServiceDepartures ==
    /\ resp.op = "DeparturesForStop" =>
         LET due == {st \in ActiveAtStop :
                        SecondsOf(st.departure_time) >= SecondsOf(resp.afterTime)}
             n == Len(resp.rows)
         IN  /\ n = Min(resp.limit, Cardinality(due))
             /\ \A i \in 1..n : \E st \in due :
                   /\ resp.rows[i].TripID = st.trip_id
                   /\ resp.rows[i].DepartureTime = st.departure_time
             /\ \A i, j \in 1..n : i # j => resp.rows[i].TripID # resp.rows[j].TripID
             /\ \A st \in due :
                   (\A i \in 1..n : resp.rows[i].TripID # st.trip_id) =>
                   \A i \in 1..n : SecondsOf(resp.rows[i].DepartureTime)
                                      <= SecondsOf(st.departure_time)
    /\ resp.op = "AllDeparturesForStopRoute" =>
         LET due == {st \in ActiveAtStop :
                        /\ RouteOf(req.db, st.trip_id) = resp.routeID
                        /\ DirectionOf(req.db, st.trip_id) = resp.directionID}
         IN  /\ Len(resp.times) = Cardinality(due)
             /\ \A st \in due :
                   Cardinality({i \in 1..Len(resp.times) :
                                   resp.times[i] = st.departure_time})
                     = Cardinality({o \in due : o.departure_time = st.departure_time})

\* on a date inside the weekly pattern of WK and outside that of XS, a type-2
\* exception removed T1 of WK and a type-1 exception added T2 of XS
C7_Witness ==
    /\ resp.op = "DeparturesForStop" /\ resp.afterTime = HMS(0, 0, 0)
    /\ "WK" \in CalendarServices(req.db, req.date)
    /\ "XS" \notin CalendarServices(req.db, req.date)
    /\ \A i \in 1..Len(resp.rows) : resp.rows[i].TripID # "T1"
    /\ \E i \in 1..Len(resp.rows) : resp.rows[i].TripID = "T2"
    /\ Len(resp.rows) < resp.limit

(***************************************************************************)
(* The departure merge.                                                    *)
(***************************************************************************)
\* the stop times fetchDepartures' query returns candidates from: those of the
\* request's stop that are not before the request's instant
ScheduledAtStop ==
    IF req.dbErr THEN {}
    ELSE {st \in req.db.stop_times :
             /\ st.stop_id = req.stop
             /\ ActiveOn(req.db, ServiceOf(req.db, st.trip_id), DateOf(req.now))
             /\ Midnight(req.now) + SecondsOf(st.departure_time) >= req.now}

\* C8: a scheduled row with a realtime entry marked actual is flagged late iff the
\* realtime departure is more than 2 minutes after the scheduled departure
C8_LateIffMoreThanTwoMinutes ==
    resp.op = "fetchDepartures" =>
       \A i \in 1..Len(resp.result) : \A st \in ScheduledAtStop :
          LET e == resp.result[i]
              rtDeps == RealtimeDepartures(req.ntErr, req.rt)
          IN  (e.trip = st.trip_id /\ HasRealtime(rtDeps, e.trip)
                 /\ rtByTrip(rtDeps, e.trip).Actual)
              => (e.IsLate <=>
                    rtByTrip(rtDeps, e.trip).DepartureTime
                       - (Midnight(req.now) + SecondsOf(st.departure_time))
                    > LateTolerance * SecondsPerMinute)

\* C9: when the realtime source fails, fetchDepartures returns the `limit` soonest
\* scheduled departures in order of minutes away, none marked realtime or late
C9_RealtimeErrorScheduleOnly ==
    (resp.op = "fetchDepartures" /\ req.ntErr) =>
       LET out == resp.result
           n == Len(resp.result)
           Away(st) == (Midnight(req.now) + SecondsOf(st.departure_time) - req.now)
                          \div SecondsPerMinute
       IN  /\ n = Min(req.limit, Cardinality(ScheduledAtStop))
           /\ \A i \in 1..n :
                 /\ ~out[i].IsRealtime /\ ~out[i].IsLate /\ out[i].Realtime = NoTime
                 /\ \E st \in ScheduledAtStop :
                       out[i].trip = st.trip_id /\ out[i].MinutesAway = Away(st)
           /\ \A i, j \in 1..n : i < j => out[i].MinutesAway <= out[j].MinutesAway
           /\ \A i, j \in 1..n : i # j => out[i].trip # out[j].trip
           /\ \A st \in ScheduledAtStop :
                 (\A i \in 1..n : out[i].trip # st.trip_id) =>
                 \A i \in 1..n : out[i].MinutesAway <= Away(st)

\* the source failed while holding an actual entry of the scheduled trip T1 and an
\* unscheduled trip; T1 came back from the schedule and the limit cut the list
C9_Witness ==
    /\ resp.op = "fetchDepartures" /\ req.ntErr /\ ~req.dbErr
    /\ Len(req.rt) = 2 /\ req.rt[1].Actual
    /\ \E i \in 1..Len(resp.result) : resp.result[i].trip = "T1"
    /\ Cardinality(ScheduledAtStop) > req.limit
    /\ Len(resp.result) = req.limit

C12_UpdateOnlyOnChange ==
    [][\A p \in Procs \ {"main"} :
         /\ pc[p] = "Checked" /\ pc'[p] # "Checked" /\ status[p] = 304 =>
               /\ pc'[p] = "Returned" /\ ret'[p] = "nil"
               /\ UNCHANGED <<committed, tx, writer, dl, step>>
         /\ pc'[p] = "Download" /\ pc[p] # "Download" =>
               pc[p] = "Checked" /\ status[p] \notin {0, 304}
         /\ status[p] = 304 /\ status'[p] = 304 => pc'[p] \notin UpdatePcs]_vars

C12_Witness ==
    \E p \in Procs \ {"main"} :
        /\ pc[p] = "Returned" /\ ret[p] = "nil" /\ status[p] = 304
        /\ dl[p] = NoFeed /\ committed["routes"] > 0

\* the files the archive format requires
RequiredMissing(archive) ==
    \/ \E f \in {"agency.txt", "routes.txt", "stops.txt", "trips.txt", "stop_times.txt"} :
          f \notin archive.files
    \/ "calendar.txt" \notin archive.files /\ "calendar_dates.txt" \notin archive.files

\* C13: an update cycle whose archive lacks a required file (agency, routes, stops,
\* trips, stop_times, or both calendar files) ends with an error and leaves the
\* committed store as it was
C13_MissingRequiredFileFails ==
    resp.op = "update" /\ RequiredMissing(req.archive) =>
        resp.err # "nil" /\ resp.db = req.db

\* a row of the files read that names a trip, stop or route the files read lack
Dangling(archive) ==
    LET has(f) == f \in archive.files
    IN  \/ has("trips.txt") /\ \E t \in archive.trips :
              ~has("routes.txt") \/ t.route_id \notin {r.route_id : r \in archive.routes}
        \/ has("stop_times.txt") /\ \E st \in archive.stop_times :
              \/ ~has("trips.txt") \/ st.trip_id \notin {t.trip_id : t \in archive.trips}
              \/ ~has("stops.txt")
              \/ st.stop_id \notin {archive.stops[i].stop_id : i \in 1..Len(archive.stops)}

Intact(db) ==
    /\ \A t \in db.trips : t.route_id \in {r.route_id : r \in db.routes}
    /\ \A st \in db.stop_times :
          /\ st.trip_id \in {t.trip_id : t \in db.trips}
          /\ st.stop_id \in {x.stop_id : x \in db.stops}

\* C14: an import with a stop_time of a missing trip or stop, or a trip of a missing
\* route, fails and leaves the store as it was; every committed store is
\* referentially intact
C14_ReferentialIntegrity ==
    /\ req.op = "update" => Intact(req.db)
    /\ resp.op = "update" =>
          /\ Intact(resp.db)
          /\ Dangling(req.archive) => resp.err # "nil" /\ resp.db = req.db

C14_Witness ==
    /\ resp.op = "update" /\ Dangling(req.archive) /\ ~RequiredMissing(req.archive)
    /\ resp.err = "importTrips" /\ req.db # EmptyStore /\ resp.db = req.db

\* the index entries of a stop row
EntriesOf(db, s) == {e \in db.stops_rtree : e.id = s.rowid}

\* one entry per stop row whose bounds are the stop's coordinates, none without a stop
PointIndex(db) ==
    /\ \A s \in db.stops :
          /\ Cardinality(EntriesOf(db, s)) = 1
          /\ \A e \in EntriesOf(db, s) :
                /\ e.min_lat = s.stop_lat /\ e.max_lat = s.stop_lat
                /\ e.min_lon = s.stop_lon /\ e.max_lon = s.stop_lon
    /\ \A e \in db.stops_rtree : \E s \in db.stops : s.rowid = e.id

\* C15 as stated: in every committed store the index has exactly one entry per stop
\* row, keyed by its rowid, with minimum and maximum both equal to the stop's
\* latitude and longitude, and no entry for a stop that does not exist
C15_IndexBoundsEqualStop == resp.op = "update" => PointIndex(resp.db)

\* lo and hi are the 32-bit floats next to x: x itself when it is one
Encloses(lo, hi, x) ==
    /\ lo <= x /\ x <= hi /\ hi - lo <= FloatStep
    /\ lo % FloatStep = 0 /\ hi % FloatStep = 0
    /\ x % FloatStep = 0 => lo = x /\ hi = x

EnclosingIndex(db) ==
    /\ \A s \in db.stops :
          /\ Cardinality(EntriesOf(db, s)) = 1
          /\ \A e \in EntriesOf(db, s) :
                /\ Encloses(e.min_lat, e.max_lat, s.stop_lat)
                /\ Encloses(e.min_lon, e.max_lon, s.stop_lon)
    /\ \A e \in db.stops_rtree : \E s \in db.stops : s.rowid = e.id

\* C15, amended: in every committed store the index has exactly one entry per stop
\* row, keyed by its rowid, whose bounds are the 32-bit floats enclosing the stop's
\* latitude and longitude (both equal to it when it is a 32-bit float), and no entry
\* for a stop that does not exist
C15_IndexEnclosesStops ==
    /\ req.op = "update" => EnclosingIndex(req.db)
    /\ resp.op = "update" => EnclosingIndex(resp.db)

C15_Witness ==
    /\ resp.op = "update" /\ resp.err = "nil" /\ req.db = FirstImport
    /\ Cardinality(resp.db.stops) = 2 /\ Cardinality(resp.db.stops_rtree) = 2
    /\ \E e \in resp.db.stops_rtree : e.min_lat < e.max_lat

\* C16: after a successful update cycle feed_metadata holds exactly the validators of
\* the download that produced the data, and the next conditional check sends exactly
\* the stored last_modified and etag
C16_CheckReplaysStoredValidators ==
    [][\A p \in Procs \ {"main"} :
         /\ pc[p] = "Import" /\ pc'[p] = "Returned" /\ ret'[p] = "nil" =>
               /\ GetMetadata(committed', "last_modified") = dl[p].lm
               /\ GetMetadata(committed', "etag") = dl[p].etag
               /\ GetMetadata(committed', "imported_at") # 0
         /\ pc[p] = "Check" /\ pc'[p] # "Check" =>
               /\ lm[p] = GetMetadata(committed, "last_modified")
               /\ etag[p] = GetMetadata(committed, "etag")]_vars

\* the lists the view of the request builds at the tier the response names
FullLists(r, radius) ==
    IF r.view = "stops" THEN allStopViews(r.stops, radius)
    ELSE cleanedRoutes(r.stops, radius)

\* the items from position offset + 1 to offset + limit of the list, as far as it goes
PageOf(all, offset, limit) ==
    LET last == IF offset + limit < Len(all) THEN offset + limit ELSE Len(all)
        k == IF last > offset THEN last - offset ELSE 0
    IN  [i \in 1..k |-> all[offset + i]]

\* C17: the page of either view is exactly the items [offset, min(offset+limit, n))
\* of the full list in its order, with hasMore exactly when offset + limit < n; an
\* offset at or past n gives an empty page and hasMore false
C17_PageIsSliceOfList ==
    resp.op = "Nearby" =>
        \E all \in FullLists(req, resp.radius) :
            LET limit == PageLimit(req.view, req.partial)
                hasMore == resp.HasMore /\ resp.MoreRadius = resp.radius
            IN  /\ resp.items = PageOf(all, req.offset, limit)
                /\ hasMore <=> req.offset + limit < Len(all)
                /\ req.offset >= Len(all) => resp.items = <<>> /\ ~hasMore

C17_Witness ==
    /\ resp.op = "Nearby" /\ req.offset > 0 /\ Len(resp.items) = StopsPageLimit
    /\ resp.HasMore /\ resp.MoreRadius = resp.radius

\* the squared great-circle distance from the query point to the stop of an item
DistanceSquared(item) ==
    LET s == CHOOSE x \in FeedStops : x.stop_id = item.StopID
    IN  s.dx * s.dx + s.dy * s.dy

\* C18: the stops view lists the candidate stops in non-decreasing great-circle
\* distance from the query point, whatever order the box query returned them in
C18_StopsByGreatCircleDistance ==
    resp.op = "Nearby" /\ req.view = "stops" =>
        \A i, j \in 1..Len(resp.items) :
            i < j => DistanceSquared(resp.items[i]) <= DistanceSquared(resp.items[j])

\* C19: a realtime entry whose trip matches no scheduled row is in the result only
\* when its departure time is still in the future; a past entry is never added
C19_PastRealtimeNeverAdded ==
    resp.op = "fetchDepartures" =>
       \A i \in 1..Len(resp.result) :
          resp.result[i].trip \notin {st.trip_id : st \in ScheduledAtStop} =>
             \E k \in 1..Len(req.rt) :
                /\ req.rt[k].TripID = resp.result[i].trip
                /\ req.rt[k].DepartureTime > req.clock

\* the lists steps 4 and 5 may build for the request
MergedLists ==
    {Merged(rows, RealtimeDepartures(req.ntErr, req.rt), req.now, req.clock) :
        rows \in ScheduledRows(req)}

\* C20: the list is in non-decreasing minutes away, has at most `limit` entries, and
\* these are the `limit` soonest entries of the merged scheduled and realtime-only
\* departures
C20_SoonestOfMerged ==
    resp.op = "fetchDepartures" =>
       LET out == resp.result
           n == Len(resp.result)
       IN  /\ n <= req.limit
           /\ \A i, j \in 1..n : i < j => out[i].MinutesAway <= out[j].MinutesAway
           /\ \E merged \in MergedLists :
                 /\ n = Min(req.limit, Len(merged))
                 /\ \E f \in [1..n -> 1..Len(merged)] :
                       /\ \A i, j \in 1..n : i # j => f[i] # f[j]
                       /\ \A i \in 1..n : out[i] = merged[f[i]]
                       /\ \A k \in 1..Len(merged) :
                             (\A i \in 1..n : f[i] # k) =>
                             \A i \in 1..n : out[i].MinutesAway <= merged[k].MinutesAway

\* three departures were merged, the limit kept two, and the unscheduled trip, which
\* was appended last, came out first
C20_Witness ==
    /\ resp.op = "fetchDepartures" /\ req.limit = 2 /\ Len(resp.result) = 2
    /\ \E merged \in MergedLists : Len(merged) >= 3
    /\ resp.result[1].trip = "T9"
    /\ resp.result[1].MinutesAway < resp.result[2].MinutesAway

\* the stop times at the request's stop whose trip ran on the service day before the
\* request's date and which leave, at an hour of 24 or more, at or after the request
StillToLeave ==
    {st \in req.db.stop_times :
        /\ st.stop_id = req.stop /\ Sscanf(st.departure_time).h >= HoursPerDay
        /\ ActiveOn(req.db, ServiceOf(req.db, st.trip_id), DateOf(req.now) - 1)
        /\ Midnight(req.now) - SecondsPerDay + SecondsOf(st.departure_time) >= req.now}

\* C21: a trip of service day D that leaves the stop at 24:30:00 is returned by the
\* lookup made at 00:10 of day D+1, as a departure 20 minutes away
C21_OvernightTripStillFound ==
    (resp.op = "fetchDepartures" /\ ~req.dbErr
       /\ Cardinality(req.db.stop_times) <= req.limit) =>
       \A st \in StillToLeave :
          \E i \in 1..Len(resp.result) :
             /\ resp.result[i].trip = st.trip_id
             /\ resp.result[i].MinutesAway =
                   (Midnight(req.now) - SecondsPerDay + SecondsOf(st.departure_time)
                      - req.now) \div SecondsPerMinute

\* the departures at :00, :20, :40, :60 and :95 after noon, all of them still to come
TwentyMinuteCase ==
    /\ req.op = "detectInterval" /\ resp.op = "detectInterval"
    /\ req.db.stop_times = SeriesStopTimes(<<20, 20, 20, 35>>)
    /\ req.now = At(11, 50, 0) /\ ~req.dbErr

\* C22 as stated: for departures at :00, :20, :40, :60 and :95 the reported headway is
\* 20 minutes and its end-of-pattern time is the :40 departure
C22_PatternEndsAtForty ==
    TwentyMinuteCase =>
        /\ resp.text = "Every" /\ resp.minutes = 20
        /\ resp.until = formatGTFSTime(HMS(12, 40, 0))

\* C22: for departures at :00, :20, :40, :60 and :95 the reported headway is 20 minutes,
\* its end-of-pattern time is the :60 departure, the last departure of the run of three
\* 20-minute gaps, and the :95 departure is not part of the pattern
C22_PatternEndsAtSixty ==
    TwentyMinuteCase =>
        /\ resp.text = "Every" /\ resp.minutes = 20
        /\ resp.until = formatGTFSTime(HMS(13, 0, 0))
        /\ resp.until # formatGTFSTime(HMS(13, 35, 0))

C22_Witness == TwentyMinuteCase /\ resp.text = "Every"

\* the gaps detectInterval scans for the request, and the run it settles on
ScannedGaps ==
    LET times == CHOOSE t \in AllDeparturesForStopRoute(req.db, req.stop, req.route,
                                                        req.direction, DateOf(req.now)) : TRUE
    IN  intervalsOf(futureTimes(times, req.now))

WinningRun ==
    longestRun(ScannedGaps, 1, [bestStart |-> 0, bestLen |-> 1, curStart |-> 0, curLen |-> 1])

\* a run of n consecutive gaps from position first on, every two of them within the
\* tolerance of each other
MutuallyConsistent(gaps, first, n) ==
    /\ first + n - 1 <= Len(gaps)
    /\ \A i, j \in first..(first + n - 1) : Abs(gaps[i] - gaps[j]) <= IntervalTolerance

\* C23: a reported headway comes from a run of at least 3 consecutive gaps of which every
\* two differ by at most 2 minutes; without such a run the result is the empty string
C23_RunMutuallyWithinTolerance ==
    (req.op = "detectInterval" /\ resp.op = "detectInterval" /\ resp.text = "Every") =>
        /\ WinningRun.bestLen >= MinConsistent
        /\ MutuallyConsistent(ScannedGaps, WinningRun.bestStart + 1, WinningRun.bestLen)

\* C24: the minutes reported are the multiple of 5 nearest to the arithmetic mean of the
\* gaps of the winning run
C24_MeanRoundedToFive ==
    (req.op = "detectInterval" /\ resp.op = "detectInterval" /\ resp.text = "Every") =>
        LET n == WinningRun.bestLen
            sum == SumFrom(ScannedGaps, WinningRun.bestStart, n)
        IN  /\ resp.minutes % DisplayStep = 0
            /\ 2 * Abs(resp.minutes * n - sum) <= DisplayStep * n

\* the hour of the 12-hour clock and the period of hour h of the day
Hour12(h) == IF h % 12 = 0 THEN 12 ELSE h % 12
PeriodOf(h) == IF h < 12 THEN "AM" ELSE "PM"

Shown(h, m) == [hour |-> Hour12(h % 24), minute |-> m, period |-> PeriodOf(h % 24)]

\* C25: formatGTFSTime renders a time HH:MM:SS, HH of 24 and more included, as the
\* 12-hour clock time of hour HH mod 24 and minute MM; 24:00 is 12:00 AM, 25:30 is
\* 1:30 AM, 26:15 is 2:15 AM, 12:00 is 12:00 PM and 00:00 is 12:00 AM
C25_TwelveHourClockWraps ==
    /\ (req.op = "formatGTFSTime" /\ resp.op = "formatGTFSTime") =>
            resp.shown = Shown(req.time.h, req.time.m)
    /\ formatGTFSTime(HMS(24, 0, 0)) = [hour |-> 12, minute |-> 0, period |-> "AM"]
    /\ formatGTFSTime(HMS(25, 30, 0)) = [hour |-> 1, minute |-> 30, period |-> "AM"]
    /\ formatGTFSTime(HMS(26, 15, 0)) = [hour |-> 2, minute |-> 15, period |-> "AM"]
    /\ formatGTFSTime(HMS(12, 0, 0)) = [hour |-> 12, minute |-> 0, period |-> "PM"]
    /\ formatGTFSTime(HMS(0, 0, 0)) = [hour |-> 12, minute |-> 0, period |-> "AM"]

C25_Witness ==
    /\ req.op = "formatGTFSTime" /\ resp.op = "formatGTFSTime"
    /\ req.time.text = HMS(25, 30, 0)
    /\ resp.shown = [hour |-> 1, minute |-> 30, period |-> "AM"]

\* C26: of two stored times, the one that is less as text is not the later instant
C26_TextOrderIsTimeOrder ==
    (req.op = "compare" /\ resp.op = "compare" /\ resp.less) => resp.at1 <= resp.at2

\* C27: after ctx is cancelled the background loop calls CheckAndUpdate no more
C27_NoCheckAfterCancel ==
    [][cancelled => ~(pc["background"] = "timer" /\ pc'["background"] = "CheckAndUpdate")]_vars

\* the paths open while the data is loading
OpenWhileLoading(p) ==
    \/ p \in {<<"sw.js">>, <<"manifest.json">>, <<"offline">>, <<"login">>, <<"register">>}
    \/ (Len(p) >= 2 /\ p[1] = "static")

\* C28: while the server is not ready a request to a path other than /static/*, /sw.js,
\* /manifest.json, /offline, /login and /register gets 503 with the loading page and
\* reaches no page handler; once ready every request is passed on; readiness never
\* reverts
C28_LoadingPageUntilReady ==
    [][/\ (req.op = "http" /\ resp.op = "none" /\ resp'.op = "http") =>
            /\ (~ready /\ ~OpenWhileLoading(req.path)) =>
                    (resp'.status = 503 /\ resp'.body = "loadingPage" /\ ~resp'.reached)
            /\ ready => resp'.passed
       /\ ready => ready']_vars

C28_Witness ==
    /\ ~ready /\ req.op = "http" /\ req.path = <<"nearby">> /\ req.session = "valid"
    /\ resp.op = "http" /\ resp.status = 503

\* the latest Set of key k is no more than the TTL ago
Fresh(k) == k \in DOMAIN lastSet /\ cacheNow - lastSet[k].at <= CacheTTL

\* C29: Get returns the value of the latest Set of the key exactly when no more than the
\* TTL has passed since that Set; a key never set or set longer ago is a miss, whether
\* cleanup has removed the entry or not
C29_GetHitsWithinTTL ==
    resp.op = "Get" =>
        /\ resp.ok <=> Fresh(resp.key)
        /\ resp.ok => resp.value = lastSet[resp.key].value
        /\ ~resp.ok => resp.value = "nil"

C29_Witness ==
    /\ resp.op = "Get" /\ ~resp.ok
    /\ resp.key \in DOMAIN cacheEntries
    /\ cacheNow - lastSet[resp.key].at > CacheTTL

\* C30: a conditional check answered with a status other than 304 and 200 is returned
\* to the caller as an error: it is not taken as a changed feed and no download or
\* import follows from it
C30_UnexpectedStatusIsError ==
    [][\A p \in {"startup", "background"} :
          (pc[p] = "Checked" /\ status[p] \notin {200, 304} /\ pc'[p] # "Checked") =>
                (pc'[p] = "Returned" /\ ret'[p] = "Check")]_vars

\* the future departures detectInterval scans for the request
ScannedFuture ==
    LET times == CHOOSE t \in AllDeparturesForStopRoute(req.db, req.stop, req.route,
                                                        req.direction, DateOf(req.now)) : TRUE
    IN  futureTimes(times, req.now)

\* the position in future of the departure that closes the k-th gap of more than zero
\* minutes, counting from the departure at position i
RECURSIVE ClosingDeparture(_, _, _)
ClosingDeparture(future, i, k) ==
    IF TruncMinutes(future[i + 1] - future[i]) > 0
    THEN IF k = 1 THEN i + 1 ELSE ClosingDeparture(future, i + 1, k - 1)
    ELSE ClosingDeparture(future, i + 1, k)

\* C31: a reported end-of-pattern time is the time of the departure that closes the last
\* gap of the winning run, also when two departures fall in the same minute
C31_EndIsLastDepartureOfRun ==
    (req.op = "detectInterval" /\ resp.op = "detectInterval" /\ resp.text = "Every") =>
        resp.until = Format12(ScannedFuture[
                        ClosingDeparture(ScannedFuture, 1,
                                         WinningRun.bestStart + WinningRun.bestLen)])

\* the response shows the whole list of route rows of its tier
WholeRouteList ==
    /\ resp.op = "Nearby" /\ req.view = "routes" /\ req.offset = 0
    /\ ~(resp.HasMore /\ resp.MoreRadius = resp.radius)

\* the (route, direction) groups with a departure at a stop of the tier's box
GroupsInBox ==
    UNION {{<<s.departures[k].RouteID, s.departures[k].DirectionID>> :
                k \in 1..Len(s.departures)} :
           s \in {x \in req.stops : InBox(x, resp.radius)}}

\* the positions at which the list shows the group: as a row or as a row's alternate
ShownAt(items, group) ==
    {<<i, "row">> : i \in {n \in 1..Len(items) :
        items[n].RouteID = group[1] /\ items[n].DirectionID = group[2]}}
    \cup {<<i, "alt">> : i \in {n \in 1..Len(items) :
        items[n].HasAlt /\ items[n].RouteID = group[1]
        /\ items[n].AltDirectionID = group[2]}}

\* C32: after pairing, a row's alternate is of the same route and another direction and
\* not sooner than the row; the paired-away group is no row of its own; every group with
\* a departure is shown exactly once, as a row or as the alternate of one row
C32_PairingKeepsEveryGroupOnce ==
    WholeRouteList =>
        /\ \A i \in 1..Len(resp.items) :
              resp.items[i].HasAlt =>
                 /\ resp.items[i].AltDirectionID # resp.items[i].DirectionID
                 /\ resp.items[i].MinutesAway <= resp.items[i].AltMinutesAway
                 /\ <<resp.items[i].RouteID, resp.items[i].AltDirectionID>> \in GroupsInBox
        /\ \A g \in GroupsInBox : Cardinality(ShownAt(resp.items, g)) = 1
        /\ \A i \in 1..Len(resp.items) :
              <<resp.items[i].RouteID, resp.items[i].DirectionID>> \in GroupsInBox

C32_Witness ==
    /\ WholeRouteList
    /\ \E i \in 1..Len(resp.items) :
          resp.items[i].HasAlt /\ resp.items[i].StopID # resp.items[i].AltStopID

\* C35: in the routes view every departure attached to a row, the primary one and the
\* later ones, leaves from the stop the row names, and the later times are in
\* non-decreasing order of minutes away
C35_RowTimesAreOfItsStop ==
    (resp.op = "Nearby" /\ req.view = "routes") =>
        \A i \in 1..Len(resp.items) :
            LET later == resp.items[i].LaterTimes IN
            /\ \A k \in 1..Len(later) : later[k].stop = resp.items[i].StopID
            /\ \A k \in 1..(Len(later) - 1) :
                    later[k].dep.MinutesAway <= later[k + 1].dep.MinutesAway

\* C10: a successful run with --import-gtfs has downloaded the feed and the store
\* holds that download
C10_ImportFlagReimports ==
    (importFlag /\ pc["main"] = "exit" /\ ret["main"] = "nil")
       => dl["main"] # NoFeed /\ committed = DatasetOf(dl["main"])

(***************************************************************************)
(* The 3:00 AM boundary at the grain of seconds (scheduler.go next3AM).     *)
(* Instants are seconds since local midnight of day 1.  The zone has a      *)
(* spring-forward day (02:00 -> 03:00, 23 hours long) and a fall-back day   *)
(* (02:00 -> 01:00, 25 hours long), as America/Chicago has.                 *)
(***************************************************************************)
BoundaryDays == 5
DstDays == [spring |-> 2, fall |-> 4]

\* the length of local calendar day d in seconds
DayLength(d) ==
    IF d = DstDays.spring THEN SecondsPerDay - SecondsPerHour
    ELSE IF d = DstDays.fall THEN SecondsPerDay + SecondsPerHour
    ELSE SecondsPerDay

\* the instant of local midnight that starts day d
RECURSIVE DayStart(_)
DayStart(d) == IF d <= 1 THEN 0 ELSE DayStart(d - 1) + DayLength(d - 1)

\* now.Year(), now.Month(), now.Day(): the local calendar day of an instant
LocalDay(t) == CHOOSE d \in 1..(BoundaryDays + 2) : DayStart(d) <= t /\ t < DayStart(d + 1)

\* the wall clock of an instant in the zone, in seconds after 00:00:00
WallClock(t) ==
    LET d == LocalDay(t)
        e == t - DayStart(d)
    IN  IF e < 2 * SecondsPerHour THEN e
        ELSE IF d = DstDays.spring THEN e + SecondsPerHour
        ELSE IF d = DstDays.fall THEN e - SecondsPerHour
        ELSE e

\* time.Date(y, m, d, 3, 0, 0, 0, loc): the instant whose wall clock on day d is 03:00:00
Date3AM(d) ==
    DayStart(d) + (IF d = DstDays.spring THEN ThreeAM - 1
                   ELSE IF d = DstDays.fall THEN ThreeAM + 1
                   ELSE ThreeAM) * SecondsPerHour

\* a boundary computation that never rolls over to the next day
next3AMSameDay(t) == Date3AM(LocalDay(t))

\* next3AM with the clock reading t: today's 03:00:00, or tomorrow's (AddDate(0, 0, 1))
\* when today's is not after now
next3AMInstant(t) ==
    LET boundary == Date3AM(LocalDay(t))
    IN  IF ~(boundary > t) THEN Date3AM(LocalDay(t) + 1) ELSE boundary

\* offsets around the boundary, in seconds
BoundaryOffsets ==
    {0 - 3 * SecondsPerHour, 0 - 2 * SecondsPerHour, 0 - SecondsPerHour - 1, 0 - SecondsPerHour,
     0 - 1, 0, 1, SecondsPerHour, 2 * SecondsPerHour, 12 * SecondsPerHour, 20 * SecondsPerHour,
     21 * SecondsPerHour - 1}

BoundaryRequests ==
    {r \in {[op |-> "next3AM", now |-> Date3AM(d) + o] :
                d \in 1..BoundaryDays, o \in BoundaryOffsets} : r.now >= 0}

InitBoundary == Serving /\ req \in BoundaryRequests /\ resp = NoResp

\* one turn of the loop of StartBackground up to the timer: next3AM, then time.Until(next)
ScheduleNext ==
    /\ req.op = "next3AM" /\ resp = NoResp
    /\ LET boundary == next3AMInstant(req.now)
       IN  resp' = [op |-> "next3AM", next |-> boundary, wait |-> boundary - req.now]
    /\ UNCHANGED <<req, U_sched>>

SpecBoundary == InitBoundary /\ [][ScheduleNext]_vars

NearbyQueries == <<"NearbyStops", "DeparturesForStop", "AllDeparturesForStopRoute">>

\* the views the request has read so far
ViewsOf(r) == IF r.op = "Nearby" THEN r.views ELSE <<>>

\* the handler's next statement: h.db.NearbyStops, then h.db.DeparturesForStop
\* (fetchDepartures), then h.db.AllDeparturesForStopRoute (detectInterval)
NearbyRead ==
    /\ pc["main"] = "serve"
    /\ resp = NoResp
    /\ Len(ViewsOf(req)) < Len(NearbyQueries)
    /\ req' = [op |-> "Nearby",
               views |-> Append(ViewsOf(req),
                                ReadView(committed, NearbyQueries[Len(ViewsOf(req)) + 1]))]
    /\ UNCHANGED <<now, next, serverFeed, importFlag, obs, cancelled, ready, cacheEntries,
                   lastSet, cacheNow, resp, U_store, U_guard, U_check, pc, ret, dl,
                   failedPending>>

\* the handler renders what it read
NearbyRespond ==
    /\ req.op = "Nearby" /\ Len(req.views) = Len(NearbyQueries)
    /\ resp = NoResp
    /\ resp' = [op |-> "Nearby", views |-> req.views]
    /\ UNCHANGED <<now, next, serverFeed, importFlag, obs, cancelled, ready, cacheEntries,
                   lastSet, cacheNow, req, U_store, U_guard, U_check, pc, ret, dl,
                   failedPending>>

NextRequest == Scheduler \/ TickToday \/ NearbyRead \/ NearbyRespond

SpecRequest == Init /\ [][NextRequest]_vars

\* C34: all store reads of one nearby request observe the same committed dataset
C34_RequestReadsOneDataset ==
    (resp.op = "Nearby" /\ req.op = "Nearby") =>
        \E f \in Feeds :
            \A i \in 1..Len(resp.views) :
                resp.views[i] = ReadView(DatasetOf(f), NearbyQueries[i])

(***************************************************************************)
(* Following the "more" links of the stops view (nearby.go Nearby,          *)
(* buildStopsMoreURL): each link carries the offset and the radius of the   *)
(* next request.  The feed has one more stop, due north of the query point  *)
(* and just outside the first tier.                                         *)
(***************************************************************************)
MoreStops == FeedStops \cup {Stop("n", 0, 500, <<Dep("R9", 0, 4)>>)}

\* the first request of a walk: the stops view from offset 0 at the first tier;
\* seen lists the stops of the pages shown before the current one
MoreRequests ==
    {[op |-> "Nearby", stops |-> stops, view |-> "stops", partial |-> FALSE,
      offset |-> 0, radius |-> 0, seen |-> <<>>] : stops \in SUBSET MoreStops}

StopIDs(items) == [i \in 1..Len(items) |-> items[i].StopID]

InitMore == Serving /\ req \in MoreRequests /\ resp = NoResp

\* the client follows the page's MoreURL: buildStopsMoreURL(lat, lon, newOffset, radius)
FollowMore ==
    /\ resp.op = "Nearby" /\ resp.HasMore
    /\ req' = [req EXCEPT !.offset = resp.MoreOffset,
                          !.radius = resp.MoreRadius,
                          !.seen = req.seen \o StopIDs(resp.items)]
    /\ resp' = NoResp
    /\ UNCHANGED U_sched

NextMore == Nearby \/ FollowMore

SpecMore == InitMore /\ [][NextMore]_vars

\* the stops shown by the walk up to and including the current page
ShownSoFar == req.seen \o StopIDs(resp.items)

\* C36: following the more links of the stops view from offset 0 shows no stop twice
\* and skips none: when the last page is reached every stop inside its tier was shown
C36_MoreLinksShowEveryStopOnce ==
    (resp.op = "Nearby" /\ req.view = "stops" /\ "seen" \in DOMAIN req) =>
        /\ \A i, j \in 1..Len(ShownSoFar) : ShownSoFar[i] = ShownSoFar[j] => i = j
        /\ ~resp.HasMore =>
              \A s \in StopsInTier(resp.radius) :
                  \E i \in 1..Len(ShownSoFar) : ShownSoFar[i] = s.stop_id

(***************************************************************************)
(* The NexTrip client over its cache (part_010 Client.DeparturesForStop):   *)
(* request handlers on several goroutines ask for the predictions of one    *)
(* stop.  req.at holds each goroutine's position in DeparturesForStop,      *)
(* req.got the upstream request its result came from, resp.calls the        *)
(* upstream requests issued so far.                                         *)
(***************************************************************************)
MaxCalls == 3
Callers == {"g1", "g2"}
StopKey == "stop:X"
Outcomes == {"ok", "error", "undecodable"}

InitClient ==
    /\ Serving
    /\ req = [op |-> "DeparturesForStop", at |-> [g \in Callers |-> "idle"],
             got |-> [g \in Callers |-> 0]]
    /\ resp = [op |-> "upstream", calls |-> <<>>]

\* lines 34-37: a fresh entry is returned, otherwise the caller goes on to doGet
ClientGet(g) ==
    /\ req.at[g] = "idle"
    /\ req' = [req EXCEPT !.at[g] = IF Get(cacheEntries, StopKey, cacheNow).ok
                                    THEN "idle" ELSE "doGet"]
    /\ UNCHANGED <<resp, cacheEntries, lastSet, cacheNow, U_process>>

\* lines 39-49: the upstream request and the decoding of its answer; an error of
\* either returns to the caller
ClientDoGet(g, outcome) ==
    /\ req.at[g] = "doGet"
    /\ Len(resp.calls) < MaxCalls
    /\ resp' = [resp EXCEPT !.calls = Append(@, [t |-> cacheNow, ok |-> outcome = "ok"])]
    /\ req' = [req EXCEPT !.at[g] = IF outcome = "ok" THEN "Set" ELSE "idle",
                          !.got[g] = Len(resp.calls) + 1]
    /\ UNCHANGED <<cacheEntries, lastSet, cacheNow, U_process>>

\* lines 51-52: c.cache.Set(cacheKey, &result); the value is the call it came from
ClientSet(g) ==
    /\ req.at[g] = "Set"
    /\ cacheEntries' = Store(cacheEntries, StopKey,
                             [value |-> req.got[g], expiresAt |-> cacheNow + CacheTTL])
    /\ req' = [req EXCEPT !.at[g] = "idle"]
    /\ UNCHANGED <<resp, lastSet, cacheNow, U_process>>

\* time passes
ClientTick ==
    /\ cacheNow < MaxClock
    /\ cacheNow' = cacheNow + 1
    /\ UNCHANGED <<req, resp, cacheEntries, lastSet, U_process>>

NextClient ==
    \/ \E g \in Callers : ClientGet(g) \/ ClientSet(g)
    \/ \E g \in Callers, outcome \in Outcomes : ClientDoGet(g, outcome)
    \/ ClientTick

SpecClient == InitClient /\ [][NextClient]_vars

\* C37: for one stop at most one upstream request is issued per cache window, also
\* when several requests arrive together over a cache with no fresh entry; a failed
\* upstream call stores nothing
C37_OneUpstreamPerWindow ==
    resp.op = "upstream" =>
        /\ \A i, j \in 1..Len(resp.calls) :
              (i < j /\ resp.calls[i].ok) => resp.calls[j].t - resp.calls[i].t >= CacheTTL
        /\ \A k \in DOMAIN cacheEntries : resp.calls[cacheEntries[k].value].ok

(***************************************************************************)
(* Server.SetReady called from several goroutines (part_011 75-83): the     *)
(* select that looks at the channel and the close are two steps of the      *)
(* caller.  req.at holds each goroutine's position and req.calls the calls  *)
(* it has finished; resp counts the closes of the channel and records a     *)
(* panic.                                                                   *)
(***************************************************************************)
MaxSetReady == 2
ReadyCallers == {"g1", "g2", "g3"}

\* server.New: the channel is closed at construction when the store has data
InitSetReady ==
    /\ \E db \in {DatasetOf(NoFeed), DatasetOf([v |-> 1, lm |-> 1, etag |-> 1])} :
            ServingOver(db)
    /\ ready = HasData(committed)
    /\ req = [op |-> "SetReady", at |-> [g \in ReadyCallers |-> "idle"],
              calls |-> [g \in ReadyCallers |-> 0]]
    /\ resp = [op |-> "SetReady", closes |-> IF HasData(committed) THEN 1 ELSE 0,
               panicked |-> FALSE]

\* the select: a receive from the closed channel is ready and the call returns,
\* otherwise the default case is taken
SetReadySelect(g) ==
    /\ ~resp.panicked
    /\ req.at[g] = "idle" /\ req.calls[g] < MaxSetReady
    /\ req' = IF ready THEN [req EXCEPT !.calls[g] = @ + 1]
              ELSE [req EXCEPT !.at[g] = "close"]
    /\ UNCHANGED <<resp, ready, cacheEntries, lastSet, cacheNow, now, lastCheckDate, pc, ret,
                   callDay, lm, etag, status, dl, step, tx, snap, next, writer, committed,
                   serverFeed, importFlag, obs, issued, failedPending, cancelled>>

\* close(s.ready): closing a closed channel panics
SetReadyClose(g) ==
    /\ ~resp.panicked
    /\ req.at[g] = "close"
    /\ ready' = TRUE
    /\ resp' = IF ready THEN [resp EXCEPT !.panicked = TRUE]
               ELSE [resp EXCEPT !.closes = @ + 1]
    /\ req' = [req EXCEPT !.at[g] = "idle", !.calls[g] = @ + 1]
    /\ UNCHANGED <<cacheEntries, lastSet, cacheNow, now, lastCheckDate, pc, ret,
                   callDay, lm, etag, status, dl, step, tx, snap, next, writer, committed,
                   serverFeed, importFlag, obs, issued, failedPending, cancelled>>

NextSetReady == \E g \in ReadyCallers : SetReadySelect(g) \/ SetReadyClose(g)

SpecSetReady == InitSetReady /\ [][NextSetReady]_vars

\* C38: SetReady called any number of times, one after another or together from
\* several goroutines, never panics, and the ready channel is closed exactly once
C38_SetReadyClosesOnce ==
    (req.op = "SetReady" /\ resp.op = "SetReady") =>
        /\ ~resp.panicked
        /\ resp.closes <= 1
        /\ (\E g \in ReadyCallers : req.calls[g] > 0) => (ready /\ resp.closes = 1)

\* a conditional check of calendar day d has been attempted: Downloader.Check was
\* called by the CheckAndUpdate that took the day's guard and its request was answered,
\* failed, or is awaiting the server's answer
CheckAttempted(d) ==
    \/ issued[d] >= 1
    \/ \E p \in Procs : pc[p] = "Check" /\ callDay[p] = d

WithAccounts(db) ==
    [db EXCEPT !.users = {[id |-> 1, username |-> "rider"]},
               !.device_sessions = {[user_id |-> 1, device_id |-> "phone"]}]

AccountRequests ==
    {UpdateRequest(archive, 2, MaxFeed, MaxFeed, WithAccounts(db)) :
        archive \in Archives, db \in {EmptyStore, FirstImport}}

InitAccounts == Serving /\ req \in AccountRequests /\ resp = NoResp

SpecAccounts == InitAccounts /\ [][Update]_vars

\* C40: an import, committed or rolled back, leaves users and device_sessions as they
\* were; a rolled-back one leaves every table as it was
C40_ImportKeepsAccounts ==
    (req.op = "update" /\ resp.op = "update") =>
        /\ resp.db.users = req.db.users
        /\ resp.db.device_sessions = req.db.device_sessions
        /\ DOMAIN resp.db = DOMAIN req.db
        /\ resp.err # "nil" => resp.db = req.db

\* an import committed over a store with a feed and accounts: the feed tables hold
\* the new feed and the accounts are the ones found
C40_Witness ==
    /\ req.op = "update" /\ resp.op = "update" /\ resp.err = "nil"
    /\ req.db.users # {} /\ req.db.device_sessions # {}
    /\ req.db.stops # {} /\ resp.db.stops # req.db.stops
    /\ resp.db.users = req.db.users /\ resp.db.device_sessions = req.db.device_sessions

====
